---- MODULE Spec2Model ----
(***************************************************************************)
(* Persona-driven website analyzer: the navigation/exit decision loop of   *)
(* PersonaAgent (src/src/agents/persona_agent.py), its NavigationMemory    *)
(* (src/src/models/analysis.py) and the RateLimitedLLM retry loop          *)
(* (src/src/llm/claude_client.py), and the persona tasks of                *)
(* FocusGroupAnalyzer.analyze_website                                      *)
(* (src/src/agents/focus_group_analyzer.py).                               *)
(*                                                                         *)
(* The content fetcher (self.crawler.extract_content) and the completion   *)
(* service (self.llm.llm.invoke) are external collaborators: the fetcher   *)
(* is a function from URL to an outcome (a content record with its links,  *)
(* or an exception), the completion service answers or raises at every     *)
(* call.                                                                   *)
(*                                                                         *)
(* Texts are modelled by the set of words they contain; a keyword occurs   *)
(* in a text (Python's `kw.lower() in text.lower()`) when its lower-cased  *)
(* form is the lower-cased form of one of the words.                       *)
(***************************************************************************)
EXTENDS Integers, Sequences, FiniteSets, TLC

VARIABLES
    persona,        \* self.persona: [name, interests, needs, goals]
    site,           \* the content fetcher: URL -> outcome of extract_content
    oracle,         \* the completion service's analysis answer for each URL
    start_url,      \* navigate's argument
    max_pages,      \* navigate's argument
    memory,         \* self.memory: a NavigationMemory
    pc,             \* position inside navigate / the operation under test
    page_num,       \* the loop variable of navigate
    current_url,    \* navigate's local
    exit_reason,    \* navigate's local
    should_stop,    \* navigate's local
    content,        \* navigate's local: the fetched content
    analysis,       \* navigate's local: the PageAnalysis of the current page
    pending,        \* the exception travelling to navigate's except clause
    conclusion,     \* final_conclusion computed in the finally block
    result,         \* what navigate did: nothing yet, a report, or an exception
    fetches,        \* history: the URLs handed to extract_content, in order
    llm_calls,      \* history: number of calls of the completion service
    llm_failed,     \* history: TRUE once a call of the completion service raised
    conclusions,    \* history: number of runs of _generate_final_conclusion
    args,           \* the arguments of the operation under test (unit specifications)
    ret,            \* the value it returned or the exception it raised
    personas,       \* FocusGroupAnalyzer.personas, each with what its navigate does
    tasks,          \* the persona tasks of analyze_website: position and result
    semaphore,      \* the value of FocusGroupAnalyzer.semaphore
    group,          \* analyze_website: its position, its `reports` and its result
    heap,           \* the objects the focus group has constructed, and who used them
    client          \* one RateLimitedLLM: its attributes, the clock, its invoke's position

vars == << persona, site, oracle, start_url, max_pages, memory, pc, page_num,
           current_url, exit_reason, should_stop, content, analysis, pending,
           conclusion, result, fetches, llm_calls, llm_failed, conclusions,
           args, ret, personas, tasks, semaphore, group, heap, client >>

navVars == << persona, site, oracle, start_url, max_pages, memory, page_num,
              current_url, exit_reason, should_stop, content, analysis, pending,
              conclusion, result, fetches, llm_calls, llm_failed, conclusions >>

fgVars == << personas, tasks, semaphore, group, heap, client >>

-----------------------------------------------------------------------------
(* Bounds of the model *)

MaxPages == 3
MaxNeeds == 2
MaxAttempts == 3
MaxLinks == 2
MaxInsights == 1
MaxCounter == 4
MaxPersonas == 3
MaxItems == 3
MaxInvokes == 2

-----------------------------------------------------------------------------
(* Generic helpers *)

Min(a, b) == IF a <= b THEN a ELSE b

Range(s) == { s[i] : i \in DOMAIN s }

SeqsUpTo(S, n) == UNION { [1..k -> S] : k \in 0..n }

EmptyDict == [k \in {} |-> {}]

\* an assignment that forgets the other keys
Put_Replace(d, k, v) == [x \in {k} |-> v]

\* d[k] = v on a Python dict
Put(d, k, v) == [x \in (DOMAIN d) \cup {k} |-> IF x = k THEN v ELSE d[x]]

\* d.get(k, default)
Get(d, k, default) == IF k \in DOMAIN d THEN d[k] ELSE default

\* s[a:b] on a Python list (0-based, end exclusive), as a 1-based sequence
Slice(s, a, b) == SubSeq(s, a + 1, Min(b, Len(s)))

-----------------------------------------------------------------------------
(* Words and texts *)

Words == {"pricing", "PRICING", "docs", "guide", "info", "other"}

\* str.lower()
Lower(w) == IF w = "PRICING" THEN "pricing" ELSE IF w = "DEMO" THEN "demo" ELSE w

LowerText(t) == { Lower(w) : w \in t }

\* `kw.lower() in text.lower()`
Occurs(kw, t) == Lower(kw) \in LowerText(t)

Urls == {"u1", "u2", "u3"}

-----------------------------------------------------------------------------
(* RateLimitedLLM.invoke: src/src/llm/claude_client.py *)

\* What one call of the completion service (self.llm.invoke) does: it answers,
\* or raises an exception whose message carries "rate_limit_error", or raises
\* another exception.
ServiceOutcomes == {"ok", "rate_limit_error", "error"}

\* The outcomes of the successive calls of the service during one invoke.
ServiceScripts(n) == [1..n -> ServiceOutcomes]

\* `"rate_limit_error" in error_msg`
IsRateLimit(o) == o = "rate_limit_error"

\* a loop guard that allows one attempt too many
InvokeContinues_OneMore(retry_count, max_attempts) == retry_count <= max_attempts

\* the guard of the while loop
InvokeContinues(retry_count, max_attempts) == retry_count < max_attempts

\* the guard of the `raise` in the except clause, for an error that is not a
\* rate-limit rejection
InvokeReraises(retry_count, max_attempts) == retry_count >= max_attempts

\* The while loop of invoke. st = [retry_count, last_error, calls]: last_error is
\* the number of the call whose exception is held in last_error (0: None).
\* The value: kind "return" (answer: the number of the call whose content is
\* returned), kind "reraise" (the bare `raise` of the exception of call `cause`),
\* or kind "ValueError" (the aggregated error built from last_error = `cause`).
RECURSIVE InvokeLoop(_, _, _)
InvokeLoop(script, max_attempts, st) ==
    IF InvokeContinues(st.retry_count, max_attempts)
    THEN LET call == st.calls + 1
             o    == script[call]
         IN  IF o = "ok"
             THEN [kind |-> "return", answer |-> call, cause |-> 0,
                   calls |-> call, retry_count |-> 0]
             ELSE LET rc == st.retry_count + 1
                      nx == [retry_count |-> rc, last_error |-> call, calls |-> call]
                  IN  IF IsRateLimit(o)
                      THEN InvokeLoop(script, max_attempts, nx)
                      ELSE IF InvokeReraises(rc, max_attempts)
                           THEN [kind |-> "reraise", answer |-> 0, cause |-> call,
                                 calls |-> call, retry_count |-> rc]
                           ELSE InvokeLoop(script, max_attempts, nx)
    ELSE [kind |-> "ValueError", answer |-> 0, cause |-> st.last_error,
          calls |-> st.calls, retry_count |-> st.retry_count]

\* invoke(message, max_attempts): retry_count = 0, last_error = None, then the loop
Invoke(script, max_attempts) ==
    InvokeLoop(script, max_attempts, [retry_count |-> 0, last_error |-> 0, calls |-> 0])

\* a default of one attempt more
DefaultMaxAttempts_Four == 3 + 1

\* invoke(message, max_attempts=3), line 38
DefaultMaxAttempts == 3

\* TRUE when some call made by the invoke raised
InvokeSawFailure(r) == r.calls > (IF r.kind = "return" THEN 1 ELSE 0)

-----------------------------------------------------------------------------
(* The data model: src/src/models/analysis.py *)

\* The attributes a PageAnalysis has (the dataclass's fields; none has a default).
PageAnalysisFields ==
    {"url", "summary", "likes", "dislikes", "click_reasons", "next_expectations",
     "overall_impression"}

\* PageAnalysis(**kw): a TypeError unless kw names exactly the dataclass's fields.
NewPageAnalysis(kw) ==
    IF DOMAIN kw = PageAnalysisFields
    THEN [ok |-> TRUE, value |-> kw, exc |-> ""]
    ELSE [ok |-> FALSE, value |-> kw, exc |-> "TypeError: PageAnalysis.__init__()"]

\* ExitCriteria(): the defaults; min_information_coverage 0.8 is kept as the
\* fraction 8/10.
ExitCriteria ==
    [found_cta |-> FALSE, information_satisfied |-> FALSE, content_irrelevant |-> FALSE,
     satisfaction_threshold |-> <<7, 10>>, min_information_coverage |-> <<8, 10>>,
     max_irrelevant_pages |-> 3, consecutive_irrelevant_threshold |-> 3]

\* NavigationMemory(): the record's domain is the set of attributes the dataclass
\* declares; reading any other attribute of a memory is an AttributeError.
NavigationMemory ==
    [visited_urls |-> << >>, page_summaries |-> EmptyDict, key_insights |-> EmptyDict,
     topic_relevance |-> EmptyDict, navigation_path |-> << >>,
     satisfaction_scores |-> EmptyDict, consecutive_irrelevant_pages |-> 0,
     found_ctas |-> << >>, covered_topics |-> {}]

AttributeError(owner, attr) == "AttributeError: " \o owner \o "." \o attr

\* the exception of a division by zero (line 49)
ZeroDivisionError == "ZeroDivisionError: division by zero"

-----------------------------------------------------------------------------
(* Relevance, coverage, satisfaction and the exit test:
   src/src/agents/persona_agent.py *)

\* _calculate_information_coverage: the needs that occur in some insight recorded
\* for some URL, over the number of needs. The value is the fraction <<num, den>>;
\* ok is FALSE when the division raises ZeroDivisionError.
CoveredTopics(mem, needs) ==
    { needs[i] : i \in { j \in DOMAIN needs :
                           \E u \in DOMAIN mem.key_insights :
                             \E k \in DOMAIN mem.key_insights[u] :
                               Occurs(needs[j], mem.key_insights[u][k]) } }

\* a coverage that is 0 for a persona without needs
InformationCoverage_ZeroWhenEmpty(mem, needs) ==
    IF Len(needs) = 0
    THEN [ok |-> TRUE, num |-> 0, den |-> 1, exc |-> ""]
    ELSE [ok |-> TRUE, num |-> Cardinality(CoveredTopics(mem, needs)), den |-> Len(needs),
          exc |-> ""]

InformationCoverage(mem, needs) ==
    IF Len(needs) = 0
    THEN [ok |-> FALSE, num |-> 0, den |-> 0, exc |-> "ZeroDivisionError: division by zero"]
    ELSE [ok |-> TRUE, num |-> Cardinality(CoveredTopics(mem, needs)), den |-> Len(needs),
          exc |-> ""]

\* a/b >= c/d for positive b, d
FracGeq(a, b, c, d) == a * d >= c * b

\* the two tests in the other order: the counter before the coverage
ExitDecision_CounterFirst(cov, counter, criteria) ==
    IF counter >= criteria.consecutive_irrelevant_threshold
    THEN [stop |-> TRUE, reason |-> "Website lacks relevant content"]
    ELSE IF FracGeq(cov.num, cov.den, criteria.min_information_coverage[1],
                    criteria.min_information_coverage[2])
         THEN [stop |-> TRUE, reason |-> "Gathered sufficient information"]
         ELSE [stop |-> FALSE, reason |-> ""]

\* the counter held against max_irrelevant_pages
ExitDecision_MaxIrrelevant(cov, counter, criteria) ==
    IF FracGeq(cov.num, cov.den, criteria.min_information_coverage[1],
               criteria.min_information_coverage[2])
    THEN [stop |-> TRUE, reason |-> "Gathered sufficient information"]
    ELSE IF counter >= criteria.max_irrelevant_pages
         THEN [stop |-> TRUE, reason |-> "Website lacks relevant content"]
         ELSE [stop |-> FALSE, reason |-> ""]

\* should_exit: the two tests, in the order of the code
ExitDecision(cov, counter, criteria) ==
    IF FracGeq(cov.num, cov.den, criteria.min_information_coverage[1],
               criteria.min_information_coverage[2])
    THEN [stop |-> TRUE, reason |-> "Gathered sufficient information"]
    ELSE IF counter >= criteria.consecutive_irrelevant_threshold
         THEN [stop |-> TRUE, reason |-> "Website lacks relevant content"]
         ELSE [stop |-> FALSE, reason |-> ""]

\* should_exit(current_content): the content is not read. The value carries the
\* exception when the coverage computation raises.
ShouldExit(mem, needs, criteria) ==
    LET cov == InformationCoverage(mem, needs)
    IN  IF ~cov.ok
        THEN [ok |-> FALSE, stop |-> FALSE, reason |-> "", exc |-> cov.exc]
        ELSE LET d == ExitDecision(cov, mem.consecutive_irrelevant_pages, criteria)
             IN  [ok |-> TRUE, stop |-> d.stop, reason |-> d.reason, exc |-> ""]

\* the words of `f"{summary} {' '.join(likes)} {' '.join(click_reasons)}"`
RelevanceText(a) ==
    a.summary \cup UNION Range(a.likes) \cup UNION Range(a.click_reasons)

\* _detect_cta, line 30
CtaKeywords == << "contact", "demo", "trial", "sign up", "get started" >>

\* _detect_cta(content) (lines 28-37): the first keyword, in the order of the
\* list, that occurs in the lowered text is appended to memory.found_ctas
DetectCta(mem, text) ==
    LET hits == { i \in DOMAIN CtaKeywords : Occurs(CtaKeywords[i], text) }
    IN  IF hits = {}
        THEN [found |-> FALSE, memory |-> mem]
        ELSE [found |-> TRUE,
              memory |-> [mem EXCEPT !.found_ctas =
                            Append(@, CtaKeywords[CHOOSE i \in hits : \A j \in hits : i <= j])]]

\* line 56: f"Found relevant CTA: {self.memory.found_ctas[-1]}"
CtaReason(keyword) == "Found relevant CTA: " \o keyword

\* should_exit with the CTA test in force
CtaCheckActive_On == TRUE

\* lines 55-56 of should_exit are commented out: _detect_cta is never called
CtaCheckActive == FALSE

\* should_exit(current_content), lines 53-64, with the memory it leaves
ShouldExitOn(mem, needs, criteria, text) ==
    LET c == DetectCta(mem, text)
    IN  IF CtaCheckActive /\ c.found
        THEN [ok |-> TRUE, stop |-> TRUE, exc |-> "", memory |-> c.memory,
              reason |-> CtaReason(c.memory.found_ctas[Len(c.memory.found_ctas)])]
        ELSE LET r == ShouldExit(mem, needs, criteria)
             IN  [ok |-> r.ok, stop |-> r.stop, exc |-> r.exc, memory |-> mem,
                  reason |-> r.reason]

\* the same score without the clamp at 1.0
CalculateRelevance_Unclamped(p, a) ==
    LET t == RelevanceText(a)
    IN  2 * ( Cardinality({ i \in DOMAIN p.interests : Occurs(p.interests[i], t) })
            + Cardinality({ i \in DOMAIN p.needs : Occurs(p.needs[i], t) }) )

\* _calculate_relevance, in tenths: 0.2 for every interest and every need (list
\* entries, duplicates included) that occurs in the text, at most 1.0
CalculateRelevance(p, a) ==
    LET t == RelevanceText(a)
        hits == Cardinality({ i \in DOMAIN p.interests : Occurs(p.interests[i], t) })
              + Cardinality({ i \in DOMAIN p.needs : Occurs(p.needs[i], t) })
    IN  Min(10, 2 * hits)

\* `topic_relevance.get(url, 0) < 0.3`, relevance in tenths
IsIrrelevant(rel) == rel < 3

\* a test of the likes alone: 1/2 whenever there are no likes
Satisfaction_LikesOnly(a) ==
    IF Len(a.likes) > 0
    THEN << Len(a.likes), Len(a.likes) + Len(a.dislikes) >>
    ELSE << 1, 2 >>

\* satisfaction: the fraction <<likes, likes + dislikes>>, or 1/2 when both are empty
Satisfaction(a) ==
    IF Len(a.likes) > 0 \/ Len(a.dislikes) > 0
    THEN << Len(a.likes), Len(a.likes) + Len(a.dislikes) >>
    ELSE << 1, 2 >>

-----------------------------------------------------------------------------
(* _update_memory: src/src/agents/persona_agent.py *)

\* `'Initial page' if not navigation_path else click_reasons[0] if click_reasons
\*  else 'Continued exploration'`
PathReason(mem, a) ==
    IF mem.navigation_path = << >>
    THEN [kind |-> "Initial page", text |-> {}]
    ELSE IF a.click_reasons # << >>
         THEN [kind |-> "click reason", text |-> a.click_reasons[1]]
         ELSE [kind |-> "Continued exploration", text |-> {}]

\* The statements of _update_memory, in order. Each names the attribute of the
\* analysis it reads (if any), the attribute of the memory it writes, how it
\* writes it, and the value.
UpdateStatements(mem, url, a, p) ==
    << [line |-> 68, reads |-> {}, target |-> "visited_urls", op |-> "append",
        value |-> url],
       [line |-> 69, reads |-> {"summary"}, target |-> "page_summaries", op |-> "setitem",
        value |-> Get(a, "summary", {})],
       [line |-> 70, reads |-> {"overall_impression"}, target |-> "overall_impressions",
        op |-> "setitem", value |-> Get(a, "overall_impression", {})],
       [line |-> 71, reads |-> {"next_expectations"}, target |-> "next_expectations",
        op |-> "setitem", value |-> Get(a, "next_expectations", << >>)],
       [line |-> 72, reads |-> {"visual_analysis"}, target |-> "visual_analysis",
        op |-> "setitem", value |-> Get(a, "visual_analysis", << >>)],
       [line |-> 73, reads |-> {"likes", "dislikes", "click_reasons"},
        target |-> "key_insights", op |-> "setitem",
        value |-> a.likes \o a.dislikes \o a.click_reasons],
       [line |-> 80, reads |-> {"summary", "likes", "click_reasons"},
        target |-> "topic_relevance", op |-> "setitem",
        value |-> CalculateRelevance(p, a)],
       [line |-> 82, reads |-> {"click_reasons"}, target |-> "navigation_path",
        op |-> "append", value |-> [url |-> url, reason |-> PathReason(mem, a)]],
       [line |-> 88, reads |-> {"likes", "dislikes"}, target |-> "satisfaction_scores",
        op |-> "setitem", value |-> Satisfaction(a)] >>

\* One statement: the right-hand side is evaluated first (an AttributeError when
\* the analysis lacks the attribute), then the memory's attribute is read (an
\* AttributeError when the memory lacks it), then the write.
ApplyStatement(mem, url, a, s) ==
    IF ~(s.reads \subseteq DOMAIN a)
    THEN [mem |-> mem,
          exc |-> AttributeError("PageAnalysis", CHOOSE f \in s.reads : f \notin DOMAIN a)]
    ELSE IF s.target \notin DOMAIN mem
         THEN [mem |-> mem, exc |-> AttributeError("NavigationMemory", s.target)]
         ELSE IF s.op = "append"
              THEN [mem |-> [mem EXCEPT ![s.target] = Append(@, s.value)], exc |-> ""]
              ELSE [mem |-> [mem EXCEPT ![s.target] = Put(@, url, s.value)], exc |-> ""]

\* The statements from the i-th on, stopping at the first that raises.
RECURSIVE RunStatements(_, _, _, _, _)
RunStatements(mem, url, a, stmts, i) ==
    IF i > Len(stmts)
    THEN [mem |-> mem, exc |-> ""]
    ELSE LET r == ApplyStatement(mem, url, a, stmts[i])
         IN  IF r.exc # "" THEN r ELSE RunStatements(r.mem, url, a, stmts, i + 1)

\* _update_memory(url, analysis): the memory it leaves and the exception it
\* raises ("" when it returns)
UpdateMemory(mem, url, a, p) ==
    RunStatements(mem, url, a, UpdateStatements(mem, url, a, p), 1)

-----------------------------------------------------------------------------
(* analyze_page: src/src/agents/persona_agent.py *)

\* A response of the completion service is a sequence of blank-line separated
\* blocks. A block has the label it starts with (head), whether the words
\* FINAL ASSESSMENT occur in it, and its non-empty lines after the label, each a
\* text.
Block(head, lines) ==
    [head |-> head, final |-> (head = "FINAL ASSESSMENT"), lines |-> lines]

ParsedDefaults ==
    [summary |-> {}, likes |-> << >>, dislikes |-> << >>, click_reasons |-> << >>,
     next_expectations |-> << >>, visual_analysis |-> << >>, overall_impression |-> {}]

\* The field a labelled block of the final assessment is stored in.
FieldOfLabel(head) ==
    CASE head = "Summary:" -> "summary"
      [] head = "Likes:" -> "likes"
      [] head = "Dislikes:" -> "dislikes"
      [] head = "Click Reasons:" -> "click_reasons"
      [] head = "Next Expectations:" -> "next_expectations"
      [] head = "Overall Impression:" -> "overall_impression"
      [] OTHER -> ""

\* One pass of the loop over the sections. st = [current, parsed].
ParseSection(st, b) ==
    LET st1 == IF b.head = "VISUAL BRIEF"
               THEN [st EXCEPT !.parsed.visual_analysis = b.lines]
               ELSE st
    IN  IF b.final
        THEN [st1 EXCEPT !.current = "final"]
        ELSE IF st1.current = "final" /\ FieldOfLabel(b.head) # ""
             THEN IF FieldOfLabel(b.head) \in {"summary", "overall_impression"}
                  THEN [st1 EXCEPT !.parsed[FieldOfLabel(b.head)] = UNION Range(b.lines)]
                  ELSE [st1 EXCEPT !.parsed[FieldOfLabel(b.head)] = b.lines]
             ELSE st1

RECURSIVE ParseFrom(_, _, _)
ParseFrom(st, response, i) ==
    IF i > Len(response) THEN st
    ELSE ParseFrom(ParseSection(st, response[i]), response, i + 1)

\* the parse of a response: the `parsed` dictionary
ParseResponse(response) ==
    ParseFrom([current |-> "", parsed |-> ParsedDefaults], response, 1).parsed

\* The keyword arguments of the PageAnalysis built from the parse (lines 283-292).
ParsedKwargs(url, parsed) ==
    [url |-> url, summary |-> parsed.summary, likes |-> parsed.likes,
     dislikes |-> parsed.dislikes, click_reasons |-> parsed.click_reasons,
     next_expectations |-> parsed.next_expectations,
     visual_analysis |-> parsed.visual_analysis,
     overall_impression |-> parsed.overall_impression]

\* an except clause that passes visual_analysis as the try block does
ErrorAnalysis_WithVisual(url, exc) ==
    NewPageAnalysis(
        [url |-> url, summary |-> {"Error in analysis:", exc}, likes |-> << >>,
         dislikes |-> << >>, click_reasons |-> << >>, next_expectations |-> << >>,
         visual_analysis |-> << >>, overall_impression |-> {"Analysis failed"}])

\* The PageAnalysis of the outer except clause (lines 296-304).
ErrorAnalysis(url, exc) ==
    NewPageAnalysis(
        [url |-> url, summary |-> {"Error in analysis:", exc}, likes |-> << >>,
         dislikes |-> << >>, click_reasons |-> << >>, next_expectations |-> << >>,
         overall_impression |-> {"Analysis failed"}])

\* The prompt of analyze_page is an f-string (line 172): `prompt["content"]`
\* (line 227) raises TypeError on it.
PromptIsMapping == FALSE

\* the message of the exception an invoke raises
InvokeExc(r) ==
    IF r.kind = "ValueError" THEN "ValueError: Failed after max_attempts attempts"
    ELSE "completion service error"

AnalyzeFirstAttempts == 2
AnalyzeSecondAttempts == 3

\* The scripts of the service for the second invoke of analyze_page: it is
\* reached only when the first invoke raised and line 227 did not.
SecondScripts(script1) ==
    IF Invoke(script1, AnalyzeFirstAttempts).kind # "return" /\ PromptIsMapping
    THEN ServiceScripts(AnalyzeSecondAttempts)
    ELSE { << >> }

\* analyze_page(url, content): the inner try (lines 214-233) gives a response or
\* an exception; a response is parsed and the PageAnalysis built; any exception
\* inside the outer try gives the PageAnalysis of the except clause.
\* The value: [ok, value, exc] as NewPageAnalysis, with the number of calls of
\* the service and whether one of them raised.
AnalyzePage(url, response, script1, script2) ==
    LET first  == Invoke(script1, AnalyzeFirstAttempts)
        second == Invoke(script2, AnalyzeSecondAttempts)
        built  == NewPageAnalysis(ParsedKwargs(url, ParseResponse(response)))
        onResponse == IF built.ok THEN built ELSE ErrorAnalysis(url, built.exc)
        made == IF first.kind = "return" THEN onResponse
                ELSE IF ~PromptIsMapping
                     THEN ErrorAnalysis(url, "TypeError: string indices must be integers")
                     ELSE IF second.kind = "return" THEN onResponse
                          ELSE ErrorAnalysis(url, InvokeExc(second))
        second_calls == IF first.kind # "return" /\ PromptIsMapping THEN second.calls ELSE 0
        second_failed == first.kind # "return" /\ PromptIsMapping /\ InvokeSawFailure(second)
    IN  [ok |-> made.ok, value |-> made.value, exc |-> made.exc,
         calls |-> first.calls + second_calls,
         failed |-> InvokeSawFailure(first) \/ second_failed]

\* analyze_page(url, content) for any content dictionary: line 154 reads
\* content['text_content'] inside the outer try, a KeyError when the key is
\* missing, before any call of the completion service.
AnalyzePageOf(page, url, response, script1, script2) ==
    IF "text_content" \notin DOMAIN page
    THEN LET e == ErrorAnalysis(url, "KeyError: 'text_content'")
         IN  [ok |-> e.ok, value |-> e.value, exc |-> e.exc, calls |-> 0, failed |-> FALSE]
    ELSE AnalyzePage(url, response, script1, script2)

-----------------------------------------------------------------------------
(* _choose_next_url and _generate_final_conclusion *)

None == "None"

\* a fallback that takes the last open link instead of the first
FirstUnvisited_Last(links, visited) ==
    LET open == { i \in DOMAIN links : links[i] \notin Range(visited) }
    IN  IF open = {} THEN None
        ELSE links[CHOOSE i \in open : \A j \in open : i >= j]

\* the first link, in the order of the list, that is not in visited_urls
FirstUnvisited(links, visited) ==
    LET open == { i \in DOMAIN links : links[i] \notin Range(visited) }
    IN  IF open = {} THEN None
        ELSE links[CHOOSE i \in open : \A j \in open : i <= j]

\* a test that forgets the visited URLs
CandidateAccepted_IgnoresVisited(url, links, visited) ==
    url \in Range(links)

\* the test of line 421
CandidateAccepted(url, links, visited) ==
    url \in Range(links) /\ url \notin Range(visited)

\* _choose_next_url(current_url, links, analysis): r is what invoke did,
\* candidate the last line of the response
ChooseNextUrl(mem, links, r, candidate) ==
    IF r.kind # "return" THEN None
    ELSE IF CandidateAccepted(candidate, links, mem.visited_urls)
         THEN candidate
         ELSE FirstUnvisited(links, mem.visited_urls)

\* what the model may put on the last line of its response
Candidates == Urls \cup {"no url"}

\* _generate_final_conclusion: the coverage is computed outside the try (line
\* 485); the invoke is inside it.
FinalConclusion(mem, needs, r) ==
    LET cov == InformationCoverage(mem, needs)
    IN  IF ~cov.ok THEN [ok |-> FALSE, text |-> "", exc |-> cov.exc]
        ELSE IF r.kind = "return"
             THEN [ok |-> TRUE, text |-> "conclusion", exc |-> ""]
             ELSE [ok |-> TRUE, text |-> "Error generating conclusion", exc |-> ""]

-----------------------------------------------------------------------------
(* The report: the finally block of navigate (lines 350-373) and
   AnalysisReport.to_dict (src/src/models/report.py) *)

\* The attributes of the memory the comprehension of lines 356-365 reads for one
\* URL, in the order the keyword arguments are evaluated.
ReportReads ==
    << "page_summaries", "key_insights", "key_insights", "key_insights",
       "next_expectations", "visual_analysis", "overall_impressions" >>

\* The keyword arguments of the PageAnalysis rebuilt for one visited URL.
ReportPageKwargs(mem, url) ==
    LET insights == Get(mem["key_insights"], url, << >>)
    IN  [url |-> url,
         summary |-> Get(mem["page_summaries"], url, {}),
         likes |-> Slice(insights, 0, 3),
         dislikes |-> Slice(insights, 3, 6),
         click_reasons |-> Slice(insights, 6, 8),
         next_expectations |-> Get(mem["next_expectations"], url, << >>),
         visual_analysis |-> Get(mem["visual_analysis"], url, << >>),
         overall_impression |-> Get(mem["overall_impressions"], url, {})]

\* the attributes to_dict reads of every page
ToDictReads ==
    {"url", "summary", "likes", "dislikes", "click_reasons", "next_expectations",
     "visual_analysis", "overall_impression"}

\* pages_analyzed: nothing is read when no URL was visited; otherwise the first
\* URL's keyword arguments are evaluated first and the first attribute the
\* memory lacks raises; then the PageAnalysis is constructed.
ReportPages(mem) ==
    LET missing == { i \in DOMAIN ReportReads : ReportReads[i] \notin DOMAIN mem }
        first   == CHOOSE i \in missing : \A j \in missing : i <= j
        built   == [ i \in DOMAIN mem.visited_urls |->
                       NewPageAnalysis(ReportPageKwargs(mem, mem.visited_urls[i])) ]
    IN  IF mem.visited_urls = << >>
        THEN [ok |-> TRUE, pages |-> << >>, exc |-> ""]
        ELSE IF missing # {}
             THEN [ok |-> FALSE, pages |-> << >>,
                   exc |-> AttributeError("NavigationMemory", ReportReads[first])]
             ELSE IF \E i \in DOMAIN built : ~built[i].ok
                  THEN [ok |-> FALSE, pages |-> << >>, exc |-> built[1].exc]
                  ELSE IF ~(ToDictReads \subseteq PageAnalysisFields)
                       THEN [ok |-> FALSE, pages |-> << >>,
                             exc |-> AttributeError("PageAnalysis",
                                       CHOOSE f \in ToDictReads : f \notin PageAnalysisFields)]
                       ELSE [ok |-> TRUE, pages |-> [ i \in DOMAIN built |-> built[i].value ],
                             exc |-> ""]

\* AnalysisReport(...).to_dict(): the report or the exception raised on the way
MakeReport(mem, p, start, reason, concl) ==
    LET pages == ReportPages(mem)
        cov   == InformationCoverage(mem, p.needs)
    IN  IF ~pages.ok THEN [ok |-> FALSE, exc |-> pages.exc]
        ELSE IF ~cov.ok THEN [ok |-> FALSE, exc |-> cov.exc]
             ELSE [ok |-> TRUE, exc |-> "",
                   report |-> [persona_name |-> p.name, start_url |-> start,
                               pages_analyzed |-> pages.pages,
                               navigation_path |-> mem.navigation_path,
                               exit_reason |-> reason,
                               information_coverage |-> << cov.num, cov.den >>,
                               found_ctas |-> mem.found_ctas,
                               final_conclusion |-> concl]]

-----------------------------------------------------------------------------
(* The inputs of a run of navigate *)

StartUrls == {"u1"}

\* the link lists a fetched page may carry
SiteLinkChoices == { << >>, << "u2", "u3" >>, << "u3", "u1" >> }

CloudflareMsg == "Cloudflare security check detected"
FetchErrorMsg == "page fetch failed"

\* the text of a fetched page: some pages carry words of call-to-action
PageText(links) ==
    IF links = << >> THEN {"other"}
    ELSE IF links[1] = "u2" THEN {"DEMO", "trial"} ELSE {"contact"}

\* what extract_content(url) does: it returns the content or raises
FetchOutcomes ==
    { [kind |-> "raise", exc |-> m, links |-> << >>, text_content |-> {}] :
        m \in {CloudflareMsg, FetchErrorMsg} }
    \cup { [kind |-> "content", exc |-> "", links |-> l, text_content |-> PageText(l)] :
             l \in SiteLinkChoices }

\* responses of the completion service to the analysis prompt
PricingResponse ==
    << Block("VISUAL BRIEF", << {"other"} >>),
       Block("FINAL ASSESSMENT", << >>),
       Block("Summary:", << {"other"} >>),
       Block("Likes:", << {"pricing", "info"} >>),
       Block("Overall Impression:", << {"other"} >>) >>

DocsResponse ==
    << Block("FINAL ASSESSMENT", << >>),
       Block("Summary:", << {"other"} >>),
       Block("Likes:", << {"docs", "guide"} >>),
       Block("Dislikes:", << {"other"} >>),
       Block("Click Reasons:", << {"other"} >>) >>

IrrelevantResponse ==
    << Block("FINAL ASSESSMENT", << >>),
       Block("Summary:", << {"other"} >>),
       Block("Dislikes:", << {"other"} >>) >>

\* the completion service's answer to the analysis prompt, per URL
Oracles ==
    { [u \in Urls |-> IrrelevantResponse],
      [u \in Urls |-> PricingResponse],
      [u \in Urls |-> IF u = "u1" THEN PricingResponse ELSE DocsResponse],
      [u \in Urls |-> IF u = "u1" THEN DocsResponse ELSE IrrelevantResponse] }

NeedsChoices ==
    { << >>, << "pricing" >>, << "pricing", "docs" >>, << "PRICING", "docs", "docs" >> }

NoAnalysis == ErrorAnalysis("None", "no analysis yet").value
NoContent == [kind |-> "content", exc |-> "", links |-> << >>, text_content |-> {}]
NoResult == [kind |-> "none", exc |-> ""]

\* the state of the unit specifications' variables during a run of navigate
Idle == [op |-> "none"]

\* a gate that admits three
SemaphoreValue_Three == 2 + 1

\* asyncio.Semaphore(2): src/src/agents/focus_group_analyzer.py, line 21
SemaphoreValue == 2

\* the client's variable in the specifications that do not follow its clock
ClientAtRest == [pc |-> "rest"]

\* the state of the focus group's variables when no focus group runs
GroupAtRest ==
    /\ personas = << >>
    /\ tasks = << >>
    /\ semaphore = SemaphoreValue
    /\ group = [pc |-> "idle"]
    /\ heap = << >>
    /\ client = ClientAtRest

-----------------------------------------------------------------------------
(* navigate: src/src/agents/persona_agent.py, lines 306-373 *)

Init ==
    /\ persona \in { [name |-> "p", interests |-> << "guide" >>, needs |-> n,
                      goals |-> << "other" >>] : n \in NeedsChoices }
    /\ site \in [Urls -> FetchOutcomes]
    /\ oracle \in Oracles
    /\ start_url \in StartUrls
    /\ max_pages \in 0..MaxPages
    /\ memory = NavigationMemory
    /\ pc = "loop"
    /\ page_num = 0
    /\ current_url = start_url
    /\ exit_reason = ""
    /\ should_stop = FALSE
    /\ content = NoContent
    /\ analysis = NoAnalysis
    /\ pending = ""
    /\ conclusion = ""
    /\ result = NoResult
    /\ fetches = << >>
    /\ llm_calls = 0
    /\ llm_failed = FALSE
    /\ conclusions = 0
    /\ args = Idle
    /\ ret = Idle
    /\ GroupAtRest

\* a loop that runs once more than max_pages
LoopBound_OneMore(n) == n + 1

\* the bound of `for page_num in range(max_pages)`
LoopBound(n) == n

\* line 317: the loop has another iteration and fetches the current URL
Fetch ==
    /\ pc = "loop"
    /\ page_num < LoopBound(max_pages)
    /\ fetches' = Append(fetches, current_url)
    /\ LET o == site[current_url]
       IN  IF o.kind = "raise"
           THEN /\ pending' = o.exc
                /\ pc' = "except"
                /\ UNCHANGED content
           ELSE /\ content' = o
                /\ pc' = "fetched"
                /\ UNCHANGED pending
    /\ UNCHANGED << persona, site, oracle, start_url, max_pages, memory, page_num,
                    current_url, exit_reason, should_stop, analysis, conclusion,
                    result, llm_calls, llm_failed, conclusions, args, ret, fgVars >>

\* the range is exhausted: the loop ends without a break
LoopExhausted ==
    /\ pc = "loop"
    /\ ~(page_num < LoopBound(max_pages))
    /\ pc' = "finally"
    /\ UNCHANGED << navVars, args, ret, fgVars >>

\* line 318: should_stop, exit_reason = self.should_exit(content)
ExitCheck ==
    /\ pc = "fetched"
    /\ LET r == ShouldExitOn(memory, persona.needs, ExitCriteria, content.text_content)
       IN  /\ memory' = r.memory
           /\ IF r.ok
              THEN /\ should_stop' = r.stop
                   /\ exit_reason' = r.reason
                   /\ pc' = "analyze"
                   /\ UNCHANGED pending
              ELSE /\ pending' = r.exc
                   /\ pc' = "except"
                   /\ UNCHANGED << should_stop, exit_reason >>
    /\ UNCHANGED << persona, site, oracle, start_url, max_pages, page_num,
                    current_url, content, analysis, conclusion, result, fetches,
                    llm_calls, llm_failed, conclusions, args, ret, fgVars >>

\* line 320: analysis = self.analyze_page(current_url, content)
Analyze ==
    /\ pc = "analyze"
    /\ \E s1 \in ServiceScripts(AnalyzeFirstAttempts) :
         \E s2 \in SecondScripts(s1) :
           LET r == AnalyzePage(current_url, oracle[current_url], s1, s2)
           IN  /\ llm_calls' = llm_calls + r.calls
               /\ llm_failed' = (llm_failed \/ r.failed)
               /\ IF r.ok
                  THEN /\ analysis' = r.value
                       /\ pc' = "update"
                       /\ UNCHANGED pending
                  ELSE /\ pending' = r.exc
                       /\ pc' = "except"
                       /\ UNCHANGED analysis
    /\ UNCHANGED << persona, site, oracle, start_url, max_pages, memory, page_num,
                    current_url, exit_reason, should_stop, content, conclusion,
                    result, fetches, conclusions, args, ret, fgVars >>


\* lines 328-331: the counter of consecutive irrelevant pages
CountIrrelevant(mem, url) ==
    [mem EXCEPT !.consecutive_irrelevant_pages =
        IF IsIrrelevant(Get(mem.topic_relevance, url, 0)) THEN @ + 1 ELSE 0]

\* Lines 321-344, the rest of one pass of the loop after the analysis: what it
\* may leave behind. _update_memory may raise (to the except clause); else a
\* stop decided at line 318 breaks; else the counter is updated, a page
\* without links breaks, and the next URL is chosen.
TickOutcomes(mem, url, a, p, stop, reason, links) ==
    LET u    == UpdateMemory(mem, url, a, p)
        base == [memory |-> u.mem, pending |-> "", exit_reason |-> reason,
                 pc |-> "finally", current_url |-> url, completed |-> 0,
                 calls |-> 0, failed |-> FALSE]
        m2   == CountIrrelevant(u.mem, url)
    IN  IF u.exc # ""
        THEN { [base EXCEPT !.pending = u.exc, !.pc = "except"] }
        ELSE IF stop
             THEN { base }
             ELSE IF links = << >>
                  THEN { [base EXCEPT !.memory = m2,
                                      !.exit_reason = "No further links to explore"] }
                  ELSE { LET r    == Invoke(s, DefaultMaxAttempts)
                             next == ChooseNextUrl(m2, links, r, c)
                             made == [base EXCEPT !.memory = m2, !.calls = r.calls,
                                                  !.failed = InvokeSawFailure(r)]
                         IN  IF next = None
                             THEN [made EXCEPT !.exit_reason = "No relevant links to explore"]
                             ELSE [made EXCEPT !.current_url = next, !.completed = 1,
                                               !.pc = "loop"]
                         : s \in ServiceScripts(DefaultMaxAttempts), c \in Candidates }

\* lines 321-344
Record ==
    /\ pc = "update"
    /\ \E o \in TickOutcomes(memory, current_url, analysis, persona, should_stop,
                             exit_reason, content.links) :
         /\ memory' = o.memory
         /\ pending' = o.pending
         /\ exit_reason' = o.exit_reason
         /\ pc' = o.pc
         /\ current_url' = o.current_url
         /\ page_num' = page_num + o.completed
         /\ llm_calls' = llm_calls + o.calls
         /\ llm_failed' = (llm_failed \/ o.failed)
    /\ UNCHANGED << persona, site, oracle, start_url, max_pages, should_stop, content,
                    analysis, conclusion, result, fetches, conclusions, args, ret, fgVars >>

\* a reason that is the bare message
ErrorReason_Bare(msg) == msg

\* lines 346-348: the except clause
ErrorReason(msg) == "Error: " \o msg

Except ==
    /\ pc = "except"
    /\ exit_reason' = ErrorReason(pending)
    /\ pc' = "finally"
    /\ UNCHANGED << persona, site, oracle, start_url, max_pages, memory, page_num,
                    current_url, should_stop, content, analysis, pending, conclusion,
                    result, fetches, llm_calls, llm_failed, conclusions, args, ret, fgVars >>

\* line 351: final_conclusion = self._generate_final_conclusion(); an exception
\* raised here leaves navigate.
Conclude ==
    /\ pc = "finally"
    /\ conclusions' = conclusions + 1
    /\ \E s \in ServiceScripts(DefaultMaxAttempts) :
         LET r == Invoke(s, DefaultMaxAttempts)
             c == FinalConclusion(memory, persona.needs, r)
         IN  IF c.ok
             THEN /\ conclusion' = c.text
                  /\ llm_calls' = llm_calls + r.calls
                  /\ llm_failed' = (llm_failed \/ InvokeSawFailure(r))
                  /\ pc' = "report"
                  /\ UNCHANGED result
             ELSE /\ result' = [kind |-> "raised", exc |-> c.exc]
                  /\ pc' = "done"
                  /\ UNCHANGED << conclusion, llm_calls, llm_failed >>
    /\ UNCHANGED << persona, site, oracle, start_url, max_pages, memory, page_num,
                    current_url, exit_reason, should_stop, content, analysis, pending,
                    fetches, args, ret, fgVars >>

\* lines 353-373: the report is built and returned; an exception raised while
\* building it leaves navigate.
Report ==
    /\ pc = "report"
    /\ LET r == MakeReport(memory, persona, start_url, exit_reason, conclusion)
       IN  result' = IF r.ok
                     THEN [kind |-> "returned", exc |-> "", report |-> r.report]
                     ELSE [kind |-> "raised", exc |-> r.exc]
    /\ pc' = "done"
    /\ UNCHANGED << persona, site, oracle, start_url, max_pages, memory, page_num,
                    current_url, exit_reason, should_stop, content, analysis, pending,
                    conclusion, fetches, llm_calls, llm_failed, conclusions, args, ret, fgVars >>

Next ==
    \/ Fetch
    \/ LoopExhausted
    \/ ExitCheck
    \/ Analyze
    \/ Record
    \/ Except
    \/ Conclude
    \/ Report

Spec == Init /\ [][Next]_vars

-----------------------------------------------------------------------------
(* RateLimitedLLM.invoke on its own: one invoke against every script of the
   completion service *)

\* the variables of navigate, at rest
NavAtRest ==
    /\ site = [u \in Urls |-> NoContent]
    /\ oracle = [u \in Urls |-> IrrelevantResponse]
    /\ start_url = "u1"
    /\ max_pages = 0
    /\ page_num = 0
    /\ current_url = "u1"
    /\ exit_reason = ""
    /\ should_stop = FALSE
    /\ content = NoContent
    /\ analysis = NoAnalysis
    /\ pending = ""
    /\ conclusion = ""
    /\ result = NoResult
    /\ fetches = << >>
    /\ llm_calls = 0
    /\ llm_failed = FALSE
    /\ conclusions = 0

DefaultPersona ==
    [name |-> "p", interests |-> << "guide" >>, needs |-> << "pricing", "docs" >>,
     goals |-> << "other" >>]

InitInvoke ==
    /\ NavAtRest
    /\ GroupAtRest
    /\ persona = DefaultPersona
    /\ memory = NavigationMemory
    /\ pc = "call"
    /\ args \in { [op |-> "invoke", max_attempts |-> n, script |-> s] :
                    n \in 0..MaxAttempts, s \in ServiceScripts(MaxAttempts + 1) }
    /\ ret = Idle

\* self.llm.invoke(prompt, max_attempts)
CallInvoke ==
    /\ pc = "call"
    /\ args.op = "invoke"
    /\ ret' = Invoke(args.script, args.max_attempts)
    /\ pc' = "returned"
    /\ UNCHANGED << navVars, args, fgVars >>

SpecInvoke == InitInvoke /\ [][CallInvoke]_vars

-----------------------------------------------------------------------------
(* should_exit on its own: one call on every memory, persona and criteria *)

NeedWords == {"pricing", "PRICING", "docs"}

InsightTexts == { {"pricing", "info"}, {"docs", "guide"}, {"other"} }

\* key_insights after no page, one page or two pages
InsightDicts ==
    UNION { [D -> SeqsUpTo(InsightTexts, MaxInsights)] : D \in { {}, {"u1"}, {"u1", "u2"} } }

\* exit criteria: the defaults, and other settings of the two fields read
CriteriaChoices ==
    { [ExitCriteria EXCEPT !.min_information_coverage = c,
                           !.consecutive_irrelevant_threshold = t] :
        c \in { << 8, 10 >>, << 5, 10 >> }, t \in { 3, 1 } }

\* the content handed to should_exit: a plain page, and one with CTA words
ExitContents ==
    { [text_content |-> t, links |-> << >>] : t \in { {"other"}, {"DEMO", "trial"} } }

PlainContent == [text_content |-> {"other"}, links |-> << >>]

InitExit ==
    /\ NavAtRest
    /\ GroupAtRest
    /\ persona \in { [DefaultPersona EXCEPT !.needs = n] : n \in SeqsUpTo(NeedWords, MaxNeeds) }
    /\ memory \in { [NavigationMemory EXCEPT
                        !.visited_urls = IF DOMAIN k = {} THEN << >>
                                         ELSE IF DOMAIN k = {"u1"} THEN << "u1" >>
                                         ELSE << "u1", "u2" >>,
                        !.key_insights = k,
                        !.consecutive_irrelevant_pages = c] :
                      k \in InsightDicts, c \in 0..MaxCounter }
    /\ pc = "call"
    /\ args \in { [op |-> "should_exit", criteria |-> c, content |-> PlainContent] :
                    c \in CriteriaChoices }
    /\ ret = Idle

\* self.should_exit(content)
CallShouldExit ==
    /\ pc = "call"
    /\ args.op = "should_exit"
    /\ LET r == ShouldExitOn(memory, persona.needs, args.criteria,
                             args.content.text_content)
       IN  /\ ret' = [ok |-> r.ok, stop |-> r.stop, reason |-> r.reason, exc |-> r.exc]
           /\ memory' = r.memory
    /\ pc' = "returned"
    /\ UNCHANGED << persona, site, oracle, start_url, max_pages, page_num,
                    current_url, exit_reason, should_stop, content, analysis, pending,
                    conclusion, result, fetches, llm_calls, llm_failed, conclusions,
                    args, fgVars >>

SpecExit == InitExit /\ [][CallShouldExit]_vars

-----------------------------------------------------------------------------
(* _choose_next_url on its own: one call on every list of visited URLs (the
   current page last), list of links, outcome of the invoke and last line *)

\* lists of distinct URLs, visited in some order; the current page is the last
VisitedLists == { v \in SeqsUpTo(Urls, Cardinality(Urls)) :
                    /\ Len(v) >= 1
                    /\ \A i, j \in DOMAIN v : i # j => v[i] # v[j] }

InitChoose ==
    /\ NavAtRest
    /\ GroupAtRest
    /\ persona = DefaultPersona
    /\ memory \in { [NavigationMemory EXCEPT !.visited_urls = v] : v \in VisitedLists }
    /\ pc = "call"
    /\ args \in { [op |-> "_choose_next_url", links |-> l, script |-> s, candidate |-> c] :
                    l \in SeqsUpTo(Urls, MaxLinks),
                    s \in ServiceScripts(DefaultMaxAttempts),
                    c \in Candidates }
    /\ ret = Idle

\* self._choose_next_url(current_url, links, analysis)
CallChoose ==
    /\ pc = "call"
    /\ args.op = "_choose_next_url"
    /\ ret' = [url |-> ChooseNextUrl(memory, args.links,
                                     Invoke(args.script, DefaultMaxAttempts),
                                     args.candidate)]
    /\ pc' = "returned"
    /\ UNCHANGED << navVars, args, fgVars >>

SpecChoose == InitChoose /\ [][CallChoose]_vars

-----------------------------------------------------------------------------
(* Properties of navigate *)

Finished == pc = "done"

Returned == Finished /\ result.kind = "returned"

\* the links of the start page that lead to a page not yet visited
SecondPages == Range(site[start_url].links) \ {start_url}

\* The first page is fetched, has a link to another page, and no call of the
\* completion service fails: a second page is due when max_pages allows it.
SecondPageDue ==
    /\ Len(persona.needs) > 0
    /\ max_pages >= 2
    /\ site[start_url].kind = "content"
    /\ SecondPages # {}
    /\ ~llm_failed

\* C1: navigate always ends by returning a report; no exception escapes it
\* (stated for personas with at least one need).
C1_NavigateReturnsReport ==
    (Finished /\ Len(persona.needs) > 0) => result.kind = "returned"

\* C2: when the fetch of page k raises, the report holds exactly the k-1 pages
\* recorded before it and exit_reason is "Error: <message>"; here k = 2: the
\* first page is fetched and leads on, every page it leads to answers with the
\* Cloudflare challenge.
C2_ChallengeOnSecondPage ==
    (Finished /\ SecondPageDue
       /\ (\A l \in SecondPages : site[l].kind = "raise" /\ site[l].exc = CloudflareMsg))
    => /\ result.kind = "returned"
       /\ Len(result.report.pages_analyzed) = 1
       /\ result.report.pages_analyzed[1].url = start_url
       /\ result.report.exit_reason = ErrorReason(CloudflareMsg)
       /\ Len(fetches) = 2

\* C4 (scenario A): needs pricing and docs, the insights of page 1 hold
\* "pricing info" and those of page 2 "docs guide": navigate stops with
\* "Gathered sufficient information" and two pages in the report.
C4_ScenarioA ==
    (Finished /\ SecondPageDue
       /\ persona.needs = << "pricing", "docs" >>
       /\ oracle[start_url] = PricingResponse
       /\ (\A l \in SecondPages : site[l].kind = "content" /\ oracle[l] = DocsResponse))
    => /\ result.kind = "returned"
       /\ result.report.exit_reason = "Gathered sufficient information"
       /\ Len(result.report.pages_analyzed) = 2

\* C5 (scenario B): three consecutive pages of relevance below 0.3: the counter
\* of consecutive irrelevant pages is 3 and the run ends with "Website lacks
\* relevant content". Every page of the site is irrelevant and leads on to a
\* page not yet visited, so three pages are due.
C5_ScenarioB ==
    (Finished /\ SecondPageDue
       /\ max_pages >= 3
       /\ (\A u \in Urls : oracle[u] = IrrelevantResponse /\ site[u].kind = "content")
       /\ site["u1"].links = << "u2", "u3" >>
       /\ site["u3"].links = << "u2", "u3" >>
       /\ site["u2"].links # << >>)
    => /\ result.kind = "returned"
       /\ memory.consecutive_irrelevant_pages = 3
       /\ result.report.exit_reason = "Website lacks relevant content"

\* C6: wherever navigate has left the loop, visited_urls, page_summaries and
\* navigation_path have the same number of entries.
C6_MemoryEntriesAgree ==
    pc \in {"except", "finally", "report", "done"}
    => /\ Len(memory.visited_urls) = Cardinality(DOMAIN memory.page_summaries)
       /\ Len(memory.visited_urls) = Len(memory.navigation_path)

\* C8: a run fetches and records at most max_pages pages, and when the loop
\* ends by exhausting its range the exit_reason, in navigate and in the report,
\* is the empty string.
C8_AtMostMaxPages ==
    /\ Len(fetches) <= max_pages
    /\ Len(memory.visited_urls) <= max_pages
    /\ (pc \in {"finally", "report", "done"} /\ page_num >= max_pages) => exit_reason = ""
    /\ (Returned /\ page_num >= max_pages) => result.report.exit_reason = ""

\* a finished run that fetched max_pages >= 1 pages, and no more
C8_Witness ==
    Finished /\ max_pages >= 1 /\ Len(fetches) = max_pages

-----------------------------------------------------------------------------
(* Properties of should_exit *)

ExitReturned == pc = "returned" /\ args.op = "should_exit" /\ ret.ok

CoverageReached ==
    LET cov == InformationCoverage(memory, persona.needs)
    IN  cov.num * args.criteria.min_information_coverage[2]
          >= args.criteria.min_information_coverage[1] * cov.den

CounterReached ==
    memory.consecutive_irrelevant_pages >= args.criteria.consecutive_irrelevant_threshold

\* C3: the criteria are checked in a fixed order, first match wins: "Gathered
\* sufficient information" whenever the coverage reaches the minimum, even if
\* the counter has reached its threshold too; otherwise "Website lacks relevant
\* content" whenever the counter has reached its threshold; otherwise continue
\* with the empty reason.
C3_ExitOrder ==
    ExitReturned =>
      /\ CoverageReached
           => (ret.stop /\ ret.reason = "Gathered sufficient information")
      /\ (~CoverageReached /\ CounterReached)
           => (ret.stop /\ ret.reason = "Website lacks relevant content")
      /\ (~CoverageReached /\ ~CounterReached)
           => (~ret.stop /\ ret.reason = "")

\* both criteria hold and the coverage wins
C3_Witness ==
    /\ ExitReturned
    /\ CoverageReached
    /\ CounterReached
    /\ ret.reason = "Gathered sufficient information"

-----------------------------------------------------------------------------
(* Properties of _choose_next_url *)

ChooseReturned == pc = "returned" /\ args.op = "_choose_next_url"

\* C7: a result other than None is one of the links and is not in visited_urls
\* (so it is not the current page either).
C7_ChosenIsNewLink ==
    (ChooseReturned /\ ret.url # None)
    => /\ ret.url \in Range(args.links)
       /\ ret.url \notin Range(memory.visited_urls)

\* the last line named a visited link and the chooser fell back on another one
C7_Witness ==
    /\ ChooseReturned
    /\ args.candidate \in Range(args.links)
    /\ args.candidate \in Range(memory.visited_urls)
    /\ ret.url # None
    /\ ret.url # args.candidate

-----------------------------------------------------------------------------
(* Properties of RateLimitedLLM.invoke *)

InvokeReturned == pc = "returned" /\ args.op = "invoke"

\* the first n calls of the service all raise
AllFail(n) == \A j \in 1..n : args.script[j] # "ok"

\* C9: when all max_attempts attempts fail, invoke raises the one aggregated
\* error that records the last underlying cause, whatever the kinds of the
\* failures.
C9_AggregatedError ==
    (InvokeReturned /\ args.max_attempts >= 1 /\ AllFail(args.max_attempts))
    => (ret.kind = "ValueError" /\ ret.cause = args.max_attempts)

\* C10: one invoke makes at most max_attempts calls of the service, stops at
\* the first call that answers and returns that answer, and raises only after
\* exactly max_attempts failed calls.
C10_AttemptsBounded ==
    InvokeReturned =>
      /\ ret.calls <= args.max_attempts
      /\ ret.kind = "return"
           => /\ args.script[ret.answer] = "ok"
              /\ \A j \in 1..(ret.answer - 1) : args.script[j] # "ok"
              /\ ret.calls = ret.answer
      /\ ret.kind # "return"
           => /\ ret.calls = args.max_attempts
              /\ AllFail(args.max_attempts)
      /\ (\E j \in 1..args.max_attempts : args.script[j] = "ok") => ret.kind = "return"

\* the invoke answered on its last permitted attempt, after failures of both kinds
C10_Witness ==
    /\ InvokeReturned
    /\ args.max_attempts = MaxAttempts
    /\ ret.kind = "return"
    /\ ret.calls = args.max_attempts
    /\ \E i, j \in 1..(ret.calls - 1) :
         args.script[i] = "rate_limit_error" /\ args.script[j] = "error"

-----------------------------------------------------------------------------
(* analyze_page on its own: one call on every content, response of the
   completion service and script of its calls *)

\* a response with every labelled block of the final assessment but Dislikes
NoDislikesResponse ==
    << Block("VISUAL BRIEF", << {"other"} >>),
       Block("CONTENT SUMMARY", << {"other"} >>),
       Block("FINAL ASSESSMENT", << >>),
       Block("Summary:", << {"docs"} >>),
       Block("Likes:", << {"pricing", "info"}, {"guide"} >>),
       Block("Click Reasons:", << {"docs", "guide"} >>),
       Block("Next Expectations:", << {"info"} >>),
       Block("Overall Impression:", << {"other"} >>) >>

AnalysisResponses ==
    { PricingResponse, DocsResponse, IrrelevantResponse, NoDislikesResponse, << >> }

\* content dictionaries: as extract_content returns them, and one without
\* the text
ContentChoices ==
    { [text_content |-> {"other"}, links |-> << >>], [links |-> << >>] }

InitAnalyze ==
    /\ NavAtRest
    /\ GroupAtRest
    /\ persona = DefaultPersona
    /\ memory = NavigationMemory
    /\ pc = "call"
    /\ args \in { [op |-> "analyze_page", url |-> u, content |-> c, response |-> r,
                    script1 |-> s1] :
                    u \in Urls, c \in ContentChoices, r \in AnalysisResponses,
                    s1 \in ServiceScripts(AnalyzeFirstAttempts) }
    /\ ret = Idle

\* self.analyze_page(url, content)
CallAnalyze ==
    /\ pc = "call"
    /\ args.op = "analyze_page"
    /\ \E s2 \in SecondScripts(args.script1) :
         ret' = AnalyzePageOf(args.content, args.url, args.response, args.script1, s2)
    /\ pc' = "returned"
    /\ UNCHANGED << navVars, args, fgVars >>

SpecAnalyze == InitAnalyze /\ [][CallAnalyze]_vars

-----------------------------------------------------------------------------
(* Properties of analyze_page *)

AnalyzeReturned == pc = "returned" /\ args.op = "analyze_page"

ContentWellFormed == "text_content" \in DOMAIN args.content

FirstInvokeAnswered == Invoke(args.script1, AnalyzeFirstAttempts).kind = "return"

\* the labels of the blocks that follow the FINAL ASSESSMENT block
LabelsAfterFinal ==
    { args.response[i].head : i \in { j \in DOMAIN args.response :
                                        \E k \in 1..(j - 1) : args.response[k].final } }

\* something inside analyze_page raised: the content has no text, the
\* completion failed after its retries, or the PageAnalysis could not be built
AnalysisFailed ==
    \/ ~ContentWellFormed
    \/ ~FirstInvokeAnswered
    \/ ~NewPageAnalysis(ParsedKwargs(args.url, ParseResponse(args.response))).ok

IsErrorAnalysis(a, url) ==
    /\ DOMAIN a = PageAnalysisFields
    /\ a.url = url
    /\ "Error in analysis:" \in a.summary
    /\ \E e \in a.summary : e # "Error in analysis:"
    /\ a.overall_impression = {"Analysis failed"}
    /\ a.likes = << >>
    /\ a.dislikes = << >>
    /\ a.click_reasons = << >>
    /\ a.next_expectations = << >>

C12_MissingSectionTolerated ==
    (AnalyzeReturned /\ ContentWellFormed /\ FirstInvokeAnswered
       /\ "FINAL ASSESSMENT" \in { args.response[i].head : i \in DOMAIN args.response }
       /\ "Dislikes:" \notin LabelsAfterFinal)
    => /\ ret.ok
       /\ ret.value.dislikes = << >>
       /\ \A i \in DOMAIN args.response :
            (args.response[i].head \in LabelsAfterFinal
               /\ FieldOfLabel(args.response[i].head) \in {"likes", "click_reasons",
                                                           "next_expectations"})
            => ret.value[FieldOfLabel(args.response[i].head)] = args.response[i].lines
       /\ \A i \in DOMAIN args.response :
            (args.response[i].head \in LabelsAfterFinal
               /\ FieldOfLabel(args.response[i].head) \in {"summary", "overall_impression"})
            => ret.value[FieldOfLabel(args.response[i].head)]
                 = UNION Range(args.response[i].lines)
       /\ ~IsErrorAnalysis(ret.value, args.url)

-----------------------------------------------------------------------------
(* _calculate_relevance on its own: one call on every persona and analysis *)

FiveKeywords == << "pricing", "docs", "guide", "info", "other" >>

\* lists of interests and of needs: none, some, and five
InterestChoices == { << >>, << "guide" >>, << "guide", "info" >>, FiveKeywords }

RelevanceNeeds == { << >>, << "pricing" >>, << "PRICING", "docs" >>, FiveKeywords }

\* analyses as PageAnalysis holds them, from nothing to every keyword
RelevanceAnalyses ==
    { [url |-> "u1", summary |-> s, likes |-> l, dislikes |-> d, click_reasons |-> c,
       next_expectations |-> << >>, overall_impression |-> {"other"}] :
        s \in { {}, {"other"}, {"pricing", "docs", "guide", "info", "other"} },
        l \in { << >>, << {"pricing", "info"} >>, << {"docs"}, {"guide"} >> },
        d \in { << >>, << {"pricing"} >> },
        c \in { << >>, << {"docs", "guide"} >> } }

InitRelevance ==
    /\ NavAtRest
    /\ GroupAtRest
    /\ persona \in { [DefaultPersona EXCEPT !.interests = i, !.needs = n] :
                       i \in InterestChoices, n \in RelevanceNeeds }
    /\ memory = NavigationMemory
    /\ pc = "call"
    /\ args \in { [op |-> "_calculate_relevance", analysis |-> a] : a \in RelevanceAnalyses }
    /\ ret = Idle

\* self._calculate_relevance(analysis)
CallRelevance ==
    /\ pc = "call"
    /\ args.op = "_calculate_relevance"
    /\ ret' = [relevance |-> CalculateRelevance(persona, args.analysis)]
    /\ pc' = "returned"
    /\ UNCHANGED << navVars, args, fgVars >>

SpecRelevance == InitRelevance /\ [][CallRelevance]_vars

-----------------------------------------------------------------------------
(* Properties of _calculate_relevance *)

RelevanceReturned == pc = "returned" /\ args.op = "_calculate_relevance"

\* the keyword occurs in the summary, in a like or in a click reason
KeywordMatched(kw) ==
    \/ \E w \in args.analysis.summary : Lower(w) = Lower(kw)
    \/ \E i \in DOMAIN args.analysis.likes :
         \E w \in args.analysis.likes[i] : Lower(w) = Lower(kw)
    \/ \E i \in DOMAIN args.analysis.click_reasons :
         \E w \in args.analysis.click_reasons[i] : Lower(w) = Lower(kw)

MatchedKeywords ==
    Cardinality({ i \in DOMAIN persona.interests : KeywordMatched(persona.interests[i]) })
    + Cardinality({ i \in DOMAIN persona.needs : KeywordMatched(persona.needs[i]) })

\* C13: the relevance is min(1.0, 0.2 x (interests matched + needs matched)),
\* so it lies in [0.0, 1.0]; with 5 interests and 5 needs all matched it is 1.0
\* (the relevance is counted in tenths).
C13_RelevanceClamped ==
    RelevanceReturned =>
      /\ ret.relevance = (IF 2 * MatchedKeywords <= 10 THEN 2 * MatchedKeywords ELSE 10)
      /\ ret.relevance >= 0
      /\ ret.relevance <= 10
      /\ (Len(persona.interests) = 5 /\ Len(persona.needs) = 5 /\ MatchedKeywords = 10)
           => ret.relevance = 10

\* five interests and five needs, all matched
C13_Witness ==
    /\ RelevanceReturned
    /\ Len(persona.interests) = 5
    /\ Len(persona.needs) = 5
    /\ MatchedKeywords = 10
    /\ ret.relevance = 10

-----------------------------------------------------------------------------
(* The coverage as the memory grows: the insights of one more page are
   recorded (lines 68 and 73-77 of _update_memory) in every memory of up to
   two pages *)

\* The statements of _update_memory that write visited_urls and key_insights.
\* Inside navigate they are separated by lines 70-72.
InsightStatements(mem, url, a, p) ==
    SelectSeq(UpdateStatements(mem, url, a, p),
              LAMBDA st : st.target \in {"visited_urls", "key_insights"})

InitCoverage ==
    /\ NavAtRest
    /\ GroupAtRest
    /\ persona \in { [DefaultPersona EXCEPT !.needs = n] :
                       n \in SeqsUpTo(NeedWords, MaxNeeds) \ { << >> } }
    /\ memory \in { [NavigationMemory EXCEPT
                        !.visited_urls = IF DOMAIN k = {} THEN << >>
                                         ELSE IF DOMAIN k = {"u1"} THEN << "u1" >>
                                         ELSE << "u1", "u2" >>,
                        !.key_insights = k] : k \in InsightDicts }
    /\ pc = "call"
    /\ args \in { [op |-> "_update_memory", url |-> u, analysis |-> a] :
                    u \in Urls, a \in RelevanceAnalyses }
    /\ args.url \notin Range(memory.visited_urls)
    /\ ret = Idle

\* the insights of the page are recorded; ret keeps the coverage before and after
RecordInsights ==
    /\ pc = "call"
    /\ args.op = "_update_memory"
    /\ LET stmts == InsightStatements(memory, args.url, args.analysis, persona)
           r     == RunStatements(memory, args.url, args.analysis, stmts, 1)
       IN  /\ memory' = r.mem
           /\ ret' = [exc |-> r.exc,
                      before |-> InformationCoverage(memory, persona.needs),
                      covered_before |-> CoveredTopics(memory, persona.needs),
                      after |-> InformationCoverage(r.mem, persona.needs)]
    /\ pc' = "returned"
    /\ UNCHANGED << persona, site, oracle, start_url, max_pages, page_num, current_url,
                    exit_reason, should_stop, content, analysis, pending, conclusion,
                    result, fetches, llm_calls, llm_failed, conclusions, args, fgVars >>

SpecCoverage == InitCoverage /\ [][RecordInsights]_vars

-----------------------------------------------------------------------------
(* Properties of the coverage *)

InsightsRecorded == pc = "returned" /\ args.op = "_update_memory"

-----------------------------------------------------------------------------
(* Properties of navigate: the coverage of a persona without needs *)

\* C15: for a persona with zero needs the coverage fails with a division by
\* zero, and so does every operation that evaluates it: should_exit (the run
\* goes from the fetch to the except clause, no page is analyzed), the final
\* conclusion (the exception leaves navigate) and the construction of the report.
C15_ZeroNeedsDivisionByZero ==
    Len(persona.needs) = 0 =>
      /\ ~InformationCoverage(memory, persona.needs).ok
      /\ InformationCoverage(memory, persona.needs).exc = ZeroDivisionError
      /\ ~ShouldExit(memory, persona.needs, ExitCriteria).ok
      /\ ~MakeReport(memory, persona, start_url, exit_reason, conclusion).ok
      /\ pc \notin {"analyze", "update", "report"}
      /\ pc = "except" => pending \in {ZeroDivisionError, CloudflareMsg, FetchErrorMsg}
      /\ (pc \in {"finally", "done"} /\ Len(fetches) > 0 /\ site[start_url].kind = "content")
           => exit_reason = ErrorReason(ZeroDivisionError)
      /\ Finished => (result.kind = "raised" /\ result.exc = ZeroDivisionError)

\* a persona without needs, a page fetched, and the division by zero has left
\* navigate
C15_Witness ==
    /\ Finished
    /\ Len(persona.needs) = 0
    /\ site[start_url].kind = "content"
    /\ Len(fetches) = 1
    /\ exit_reason = ErrorReason(ZeroDivisionError)
    /\ result.kind = "raised"
    /\ result.exc = ZeroDivisionError

-----------------------------------------------------------------------------
(* Properties of navigate: the report and the final conclusion *)

AnalysisFieldsReported ==
    {"summary", "likes", "dislikes", "click_reasons", "next_expectations",
     "overall_impression"}

\* C16: pages_analyzed has one entry per visited URL, in the order of
\* visited_urls, and the entry of a page carries the summary, likes, dislikes,
\* click_reasons, next_expectations and overall_impression of the PageAnalysis
\* produced for it (stated for the page analyzed last, which `analysis` holds).
C16_ReportPagesInVisitOrder ==
    (Finished /\ Len(persona.needs) > 0 /\ Len(memory.visited_urls) >= 1)
    => /\ result.kind = "returned"
       /\ Len(result.report.pages_analyzed) = Len(memory.visited_urls)
       /\ \A i \in DOMAIN memory.visited_urls :
            result.report.pages_analyzed[i].url = memory.visited_urls[i]
       /\ \A f \in AnalysisFieldsReported :
            result.report.pages_analyzed[Len(memory.visited_urls)][f] = analysis[f]

\* C17: the final conclusion is generated exactly once on every exit path,
\* after the loop has ended; when the completion client fails for it the
\* conclusion is "Error generating conclusion" and the report is still returned.
C17_ConclusionOnceAndNonFatal ==
    /\ pc \in {"loop", "fetched", "analyze", "update", "except", "finally"} => conclusions = 0
    /\ pc \in {"report", "done"} => conclusions = 1
    /\ (Finished /\ Len(persona.needs) > 0 /\ conclusion = "Error generating conclusion")
         => /\ result.kind = "returned"
            /\ result.report.final_conclusion = "Error generating conclusion"

-----------------------------------------------------------------------------
(* FocusGroupAnalyzer.analyze_website:
   src/src/agents/focus_group_analyzer.py *)

PersonaNames == << "p1", "p2", "p3", "p4", "p5" >>

\* What PersonaAgent.navigate does for one persona: it returns a report (one
\* without pages: the loop did not run, or the first fetch raised) or it raises.
NavigateOutcomes ==
    { [kind |-> "returned", exc |-> "",
       report |-> MakeReport(NavigationMemory, DefaultPersona, "u1", r, "conclusion").report] :
        r \in { "", ErrorReason(CloudflareMsg), ErrorReason(FetchErrorMsg) } }
    \cup { [kind |-> "raised", exc |-> e] :
             e \in { AttributeError("NavigationMemory", "next_expectations"),
                     ZeroDivisionError } }

\* navigate is declared with `def`, not `async def` (persona_agent.py, line 306)
NavigateIsCoroutine == FALSE

\* line 52, `report = await agent.navigate(url, max_pages=max_pages)`: navigate
\* runs to its end inside the call; what it raises is raised here, and what it
\* returns is a dict, which cannot be awaited.
AwaitNavigate(run) ==
    IF run.kind = "raised"
    THEN [kind |-> "raise", exc |-> run.exc, report |-> None]
    ELSE IF ~NavigateIsCoroutine
         THEN [kind |-> "raise", report |-> None,
               exc |-> "TypeError: object dict can't be used in 'await' expression"]
         ELSE [kind |-> "value", exc |-> "", report |-> run.report]

\* lines 64-68: the entry returned for a persona whose task caught an exception
Placeholder(name, msg) ==
    [error |-> "analysis_failed", persona |-> name, message |-> msg]

\* _generate_error_report (lines 81-90)
GenerateErrorReport(url, completed_reports, msg) ==
    [error |-> "focus_group_analysis_failed", message |-> msg, url |-> url,
     completed_analyses |-> completed_reports, status |-> "partial"]

\* the concatenation of a list of lists
RECURSIVE Flatten(_)
Flatten(ss) == IF ss = << >> THEN << >> ELSE Head(ss) \o Flatten(Tail(ss))

\* lines 101-105: all_likes, all_dislikes or all_expectations: the lists of that
\* field over the pages of every report, in order
AllItems(individual_reports, field) ==
    Flatten([i \in DOMAIN individual_reports |->
               Flatten([k \in DOMAIN individual_reports[i].pages_analyzed |->
                          individual_reports[i].pages_analyzed[k][field]])])

\* Counter(items)[x]
CountOf(items, x) == Cardinality({ i \in DOMAIN items : items[i] = x })

\* the position at which x entered the Counter
FirstSeen(items, x) ==
    CHOOSE i \in DOMAIN items : items[i] = x /\ \A j \in 1..(i - 1) : items[j] # x

\* an order that puts the item seen later first among equal counts
RanksBefore_LastSeen(items, x, y) ==
    \/ CountOf(items, x) > CountOf(items, y)
    \/ CountOf(items, x) = CountOf(items, y) /\ FirstSeen(items, x) > FirstSeen(items, y)

\* The order of most_common: by count, highest first; the sort is stable, so
\* items of equal count keep the order in which the Counter first saw them.
RanksBefore(items, x, y) ==
    \/ CountOf(items, x) > CountOf(items, y)
    \/ CountOf(items, x) = CountOf(items, y) /\ FirstSeen(items, x) < FirstSeen(items, y)

RECURSIVE MostCommonFrom(_, _, _)
MostCommonFrom(items, rest, n) ==
    IF n = 0 \/ rest = {} THEN << >>
    ELSE LET x == CHOOSE v \in rest : \A w \in rest \ {v} : RanksBefore(items, v, w)
         IN  << << x, CountOf(items, x) >> >> \o MostCommonFrom(items, rest \ {x}, n - 1)

\* Counter(items).most_common(n): pairs <<item, count>>
MostCommon(items, n) == MostCommonFrom(items, Range(items), n)

\* most_common(5), lines 109-111
TopCount == 5

\* _generate_combined_report (lines 92-147): line 102 reads
\* report['pages_analyzed'] of every individual report, a KeyError on an entry
\* without that key; r is what the invoke of _generate_summary did. `invokes`
\* is the number of calls of self.llm.invoke made on the way.
GenerateCombinedReport(url, individual_reports, r) ==
    IF \E i \in DOMAIN individual_reports :
         "pages_analyzed" \notin DOMAIN individual_reports[i]
    THEN [kind |-> "raised", exc |-> "KeyError: 'pages_analyzed'", invokes |-> 0]
    ELSE [kind |-> "returned", exc |-> "", invokes |-> 1,
          report |-> [url |-> url, num_personas |-> Len(individual_reports),
                      common_patterns |->
                        [likes |-> MostCommon(AllItems(individual_reports, "likes"), TopCount),
                         dislikes |-> MostCommon(AllItems(individual_reports, "dislikes"),
                                                 TopCount),
                         expectations |->
                           MostCommon(AllItems(individual_reports, "next_expectations"),
                                      TopCount)],
                      individual_reports |-> individual_reports,
                      summary |-> IF r.kind = "return" THEN "summary"
                                  ELSE "Error generating summary"]]

\* An object on the heap: its class and the actors that have read or written
\* its attributes.
NewObject(cls) == [cls |-> cls, users |-> {}]

\* the actor that is the analyzer itself; the task of persona i is actor i
AnalyzerActor == 0

\* FocusGroupAnalyzer.__init__ (lines 18-21): self.llm = RateLimitedLLM(...),
\* the first object made
AnalyzerHeap == << NewObject("RateLimitedLLM") >>

AnalyzerRefs == [llm |-> 1]

\* PersonaAgent.__init__ (persona_agent.py, lines 21-24): four constructor
\* calls, each giving a new object. RateLimitedLLM.__init__ sets last_call_time
\* and retry_count on the instance (claude_client.py, lines 17-18) and every
\* field of NavigationMemory has a default_factory or an int default
\* (analysis.py, lines 29-37): no state is held by the classes.
AgentObjects ==
    << NewObject("RateLimitedLLM"), NewObject("WebCrawler"),
       NewObject("NavigationMemory"), NewObject("ExitCriteria") >>

\* an agent that is handed the first client made instead of making its own
AgentRefs_SharedClient(h) ==
    [llm |-> 1, crawler |-> Len(h) + 2, memory |-> Len(h) + 3,
     exit_criteria |-> Len(h) + 4]

\* self.llm, self.crawler, self.memory and self.exit_criteria of an agent
\* constructed when the heap is h
AgentRefs(h) ==
    [llm |-> Len(h) + 1, crawler |-> Len(h) + 2, memory |-> Len(h) + 3,
     exit_criteria |-> Len(h) + 4]

\* the actor reads or writes the objects ids
Touch(h, ids, actor) ==
    [k \in DOMAIN h |-> IF k \in ids THEN [h[k] EXCEPT !.users = @ \cup {actor}] ELSE h[k]]

\* navigate reaches its objects through self only: self.crawler (line 309),
\* self.llm and self.memory (line 351, _generate_final_conclusion, and the
\* report of lines 353-371, on every path)
NavigateTouches(refs) == { refs.llm, refs.crawler, refs.memory }

\* `async with self.semaphore` admits a task while the value is positive
GateAdmits(value) == value > 0

\* the task is inside the `async with` block
InsideGate(t) == t.pc \in {"admitted", "except", "sleeping", "exiting"}

\* The event loop runs one task at a time, until it suspends or ends; a task
\* suspended in asyncio.sleep (line 58) leaves the loop to the others.
OnLoop(t) == t.pc \in {"admitted", "except", "exiting"}

InitGroup ==
    /\ NavAtRest
    /\ persona = DefaultPersona
    /\ memory = NavigationMemory
    /\ pc = "group"
    /\ args = Idle
    /\ ret = Idle
    /\ personas \in UNION { { [i \in 1..n |-> [name |-> PersonaNames[i], run |-> f[i]]] :
                               f \in [1..n -> NavigateOutcomes] } : n \in 0..MaxPersonas }
    /\ tasks = << >>
    /\ semaphore = SemaphoreValue
    /\ group = [pc |-> "start", reports |-> << >>, result |-> NoResult]
    /\ heap = AnalyzerHeap
    /\ client = ClientAtRest

\* lines 28-38: one task per persona, handed to asyncio.gather
CreateTasks ==
    /\ group.pc = "start"
    /\ tasks' = [i \in DOMAIN personas |->
                   [pc |-> "created", exc |-> "", report |-> None, agent |-> None]]
    /\ group' = [group EXCEPT !.pc = "gather"]
    /\ UNCHANGED << navVars, pc, args, ret, personas, semaphore, heap, client >>

\* line 48: the next task, in the order of creation, enters the gate
Acquire(i) ==
    /\ group.pc = "gather"
    /\ tasks[i].pc = "created"
    /\ \A j \in 1..(i - 1) : tasks[j].pc # "created"
    /\ \A j \in DOMAIN tasks : ~OnLoop(tasks[j])
    /\ GateAdmits(semaphore)
    /\ semaphore' = semaphore - 1
    /\ tasks' = [tasks EXCEPT ![i].pc = "admitted"]
    /\ UNCHANGED << navVars, pc, args, ret, personas, group, heap, client >>

\* lines 49-58: the agent is made and navigate called and awaited. No task
\* comes to sleep: navigate is not a coroutine.
RunNavigate(i) ==
    /\ tasks[i].pc = "admitted"
    /\ LET r == AwaitNavigate(personas[i].run)
           refs == AgentRefs(heap)
       IN  /\ tasks' = [tasks EXCEPT ![i] =
                          IF r.kind = "raise"
                          THEN [pc |-> "except", exc |-> r.exc, report |-> None,
                                agent |-> refs]
                          ELSE [pc |-> "sleeping", exc |-> "", report |-> r.report,
                                agent |-> refs]]
           /\ heap' = Touch(heap \o AgentObjects, NavigateTouches(refs), i)
    /\ UNCHANGED << navVars, pc, args, ret, personas, semaphore, group, client >>

\* lines 62-68: the except clause of the task
Handle(i) ==
    /\ tasks[i].pc = "except"
    /\ tasks' = [tasks EXCEPT ![i] = [pc |-> "exiting", exc |-> "", agent |-> @.agent,
                                      report |-> Placeholder(personas[i].name, @.exc)]]
    /\ UNCHANGED << navVars, pc, args, ret, personas, semaphore, group, heap, client >>

\* the end of the `async with` block: the gate is released, the task returns
Release(i) ==
    /\ tasks[i].pc = "exiting"
    /\ semaphore' = semaphore + 1
    /\ tasks' = [tasks EXCEPT ![i].pc = "done"]
    /\ UNCHANGED << navVars, pc, args, ret, personas, group, heap, client >>

\* lines 37-41: gather gives the results in the order of the tasks, or raises
\* what a task raised
Gathered ==
    /\ group.pc = "gather"
    /\ \A i \in DOMAIN tasks : tasks[i].pc \in {"done", "raised"}
    /\ IF \E i \in DOMAIN tasks : tasks[i].pc = "raised"
       THEN LET k == CHOOSE i \in DOMAIN tasks :
                       tasks[i].pc = "raised"
                       /\ \A j \in 1..(i - 1) : tasks[j].pc # "raised"
            IN  group' = [group EXCEPT
                            !.pc = "done",
                            !.result = [kind |-> "returned", exc |-> "",
                                        report |-> GenerateErrorReport(start_url, group.reports,
                                                                       tasks[k].exc)]]
       ELSE group' = [group EXCEPT !.pc = "combine",
                                   !.reports = [i \in DOMAIN tasks |-> tasks[i].report]]
    /\ UNCHANGED << navVars, pc, args, ret, personas, tasks, semaphore, heap, client >>

\* line 44: the combined report; _generate_summary calls self.llm, the
\* analyzer's own client (line 152)
Combine ==
    /\ group.pc = "combine"
    /\ \E s \in ServiceScripts(DefaultMaxAttempts) :
         LET r == GenerateCombinedReport(start_url, group.reports,
                                         Invoke(s, DefaultMaxAttempts))
         IN  /\ group' = [group EXCEPT !.pc = "done", !.result = r]
             /\ heap' = IF r.invokes = 1
                        THEN Touch(heap, {AnalyzerRefs.llm}, AnalyzerActor)
                        ELSE heap
    /\ UNCHANGED << navVars, pc, args, ret, personas, tasks, semaphore, client >>

NextGroup ==
    \/ CreateTasks
    \/ \E i \in DOMAIN tasks : Acquire(i)
    \/ \E i \in DOMAIN tasks : RunNavigate(i)
    \/ \E i \in DOMAIN tasks : Handle(i)
    \/ \E i \in DOMAIN tasks : Release(i)
    \/ Gathered
    \/ Combine

SpecGroup == InitGroup /\ [][NextGroup]_vars

-----------------------------------------------------------------------------
(* Properties of the focus group *)

GroupDone == pc = "group" /\ group.pc = "done"

\* the number of persona runs inside the admission gate
Inside == Cardinality({ i \in DOMAIN tasks : InsideGate(tasks[i]) })

\* C18: at every moment at most 2 persona runs are inside the admission gate,
\* for any number of personas (the gate's value is what is left of its 2
\* places); a run, once admitted, stays inside until it ends: the gate never
\* puts it out.
C18_GateAdmitsAtMostTwo ==
    /\ [](pc = "group" => (Inside <= 2 /\ semaphore >= 0 /\ semaphore = 2 - Inside))
    /\ [][\A i \in DOMAIN tasks :
            InsideGate(tasks[i]) => (InsideGate(tasks'[i]) \/ tasks'[i].pc = "done")]_vars

\* a run is inside the gate, two more personas have not started
C18_Witness ==
    /\ pc = "group"
    /\ Len(tasks) = 3
    /\ tasks[1].pc = "done"
    /\ tasks[2].pc = "except"
    /\ tasks[3].pc = "created"
    /\ Inside = 1
    /\ semaphore = 1

\* the run of persona i met the Cloudflare challenge
ChallengeSurfaced(i) ==
    /\ personas[i].run.kind = "returned"
    /\ personas[i].run.report.exit_reason = ErrorReason(CloudflareMsg)

\* C19: when a persona's run surfaces a Cloudflare challenge, no persona that
\* had not started is started afterwards, and analyze_website returns a
\* partial report with status "stopped" that holds the individual reports
\* completed before the failure.
C19_ChallengeStopsGroup ==
    (GroupDone /\ \E i \in DOMAIN personas : ChallengeSurfaced(i))
    => LET k == CHOOSE i \in DOMAIN personas :
                  ChallengeSurfaced(i) /\ \A j \in 1..(i - 1) : ~ChallengeSurfaced(j)
       IN  /\ group.result.kind = "returned"
           /\ "status" \in DOMAIN group.result.report
           /\ group.result.report.status = "stopped"
           /\ \A j \in (k + 1)..Len(tasks) : tasks[j].pc = "created"
           /\ \A j \in 1..(k - 1) :
                personas[j].run.kind = "returned"
                => \E n \in DOMAIN group.result.report.completed_analyses :
                     group.result.report.completed_analyses[n] = personas[j].run.report

\* C20: a failure of one persona's run other than a challenge becomes a
\* placeholder entry {error, persona, message} for that persona; the other
\* personas run to completion and their reports are returned.
C20_FailureBecomesPlaceholder ==
    (GroupDone /\ \E i \in DOMAIN personas : personas[i].run.kind = "raised")
    => /\ group.result.kind = "returned"
       /\ "individual_reports" \in DOMAIN group.result.report
       /\ Len(group.result.report.individual_reports) = Len(personas)
       /\ \A i \in DOMAIN personas :
            IF personas[i].run.kind = "raised"
            THEN group.result.report.individual_reports[i]
                   = Placeholder(personas[i].name, personas[i].run.exc)
            ELSE group.result.report.individual_reports[i] = personas[i].run.report

\* C21: analyze_website never lets an exception escape: whatever the persona
\* tasks give (reports or placeholder entries) and whatever the narrative
\* completion call does, it returns a report (combined or partial).
C21_GroupNeverRaises ==
    GroupDone =>
      /\ group.result.kind = "returned"
      /\ \/ "individual_reports" \in DOMAIN group.result.report
         \/ "completed_analyses" \in DOMAIN group.result.report

-----------------------------------------------------------------------------
(* _generate_combined_report on its own: one call on every list of up to
   MaxPersonas entries, each a report of up to two pages or a placeholder entry *)

\* pages as the reports carry them
PageOne ==
    [url |-> "u1", summary |-> {"other"}, click_reasons |-> << >>,
     overall_impression |-> {"other"},
     likes |-> << {"pricing"}, {"docs"}, {"guide"} >>,
     dislikes |-> << {"info"} >>,
     next_expectations |-> << {"other"}, {"PRICING"} >>]

PageTwo ==
    [url |-> "u2", summary |-> {"other"}, click_reasons |-> << >>,
     overall_impression |-> {"other"},
     likes |-> << {"info"}, {"other"}, {"PRICING"}, {"pricing"} >>,
     dislikes |-> << >>,
     next_expectations |-> << {"pricing"} >>]

PageThree ==
    [url |-> "u3", summary |-> {"other"}, click_reasons |-> << >>,
     overall_impression |-> {"other"},
     likes |-> << {"pricing", "info"}, {"guide"} >>,
     dislikes |-> << {"info"}, {"pricing"} >>,
     next_expectations |-> << >>]

\* the pages of one report
PageLists ==
    { << >>, << PageOne >>, << PageThree >>, << PageOne, PageTwo >>,
      << PageTwo, PageThree >>, << PageThree, PageOne >> }

\* a report of navigate with these pages
ReportWith(pages) ==
    [MakeReport(NavigationMemory, DefaultPersona, "u1", "", "conclusion").report
       EXCEPT !.pages_analyzed = pages]

GroupEntries ==
    { ReportWith(ps) : ps \in PageLists }
    \cup { Placeholder("p1", ZeroDivisionError) }

InitCombine ==
    /\ NavAtRest
    /\ persona = DefaultPersona
    /\ memory = NavigationMemory
    /\ pc = "combine"
    /\ args = Idle
    /\ ret = Idle
    /\ personas = << >>
    /\ tasks = << >>
    /\ semaphore = SemaphoreValue
    /\ heap = AnalyzerHeap
    /\ client = ClientAtRest
    /\ group \in { [pc |-> "combine", reports |-> rs, result |-> NoResult] :
                     rs \in SeqsUpTo(GroupEntries, MaxPersonas) }

SpecCombine == InitCombine /\ [][Combine]_vars

-----------------------------------------------------------------------------
(* Properties of the aggregation *)

CombinedReturned == pc = "combine" /\ group.pc = "done" /\ group.result.kind = "returned"

\* the field of the pages a category of common_patterns is drawn from
CategoryField(c) == IF c = "expectations" THEN "next_expectations" ELSE c

\* the number of times the item occurs over all pages of all reports
Occurrences(f, x) == CountOf(AllItems(group.reports, f), x)

\* the place of the item's first occurrence over all pages of all reports
FirstPlace(f, x) == FirstSeen(AllItems(group.reports, f), x)

\* r is the list of the (at most 5) most frequent items of field f, each with
\* its count, by descending count and, among equal counts, in first-seen order
IsTopFive(r, f) ==
    LET seen == Range(AllItems(group.reports, f))
        kept == { r[i][1] : i \in DOMAIN r }
    IN  /\ Len(r) = (IF Cardinality(seen) <= 5 THEN Cardinality(seen) ELSE 5)
        /\ \A i \in DOMAIN r : r[i][1] \in seen /\ r[i][2] = Occurrences(f, r[i][1])
        /\ \A i, j \in DOMAIN r :
             i < j => /\ r[i][1] # r[j][1]
                      /\ \/ r[i][2] > r[j][2]
                         \/ r[i][2] = r[j][2] /\ FirstPlace(f, r[i][1]) < FirstPlace(f, r[j][1])
        /\ \A x \in seen \ kept : \A i \in DOMAIN r :
             \/ r[i][2] > Occurrences(f, x)
             \/ r[i][2] = Occurrences(f, x) /\ FirstPlace(f, r[i][1]) < FirstPlace(f, x)

-----------------------------------------------------------------------------
(* Ownership of the objects of a focus group *)

\* the task has made its agent (line 51)
HasAgent(t) == t.pc \in {"except", "sleeping", "exiting", "done"}

\* the objects of the agent of task t
AgentIds(t) == { t.agent.llm, t.agent.crawler, t.agent.memory, t.agent.exit_criteria }

\* C23: each persona's run owns its own NavigationMemory and its own
\* RateLimitedLLM: the memory and the client of a run are objects of those
\* classes that no other run and not the analyzer holds or uses, and a step of
\* a run changes no object that an earlier run or the analyzer made.
C23_RunOwnsItsObjects ==
    /\ [](pc = "group" =>
            /\ \A k \in DOMAIN heap : Cardinality(heap[k].users) <= 1
            /\ \A i \in DOMAIN tasks :
                 HasAgent(tasks[i]) =>
                   /\ heap[tasks[i].agent.llm].cls = "RateLimitedLLM"
                   /\ heap[tasks[i].agent.memory].cls = "NavigationMemory"
                   /\ heap[tasks[i].agent.llm].users = {i}
                   /\ heap[tasks[i].agent.memory].users = {i}
                   /\ AnalyzerRefs.llm \notin AgentIds(tasks[i])
                   /\ \A j \in DOMAIN tasks \ {i} :
                        HasAgent(tasks[j]) => AgentIds(tasks[i]) \cap AgentIds(tasks[j]) = {})
    /\ [][pc = "group" =>
            \A i \in DOMAIN tasks :
              (tasks[i].pc = "admitted" /\ tasks'[i].pc # "admitted")
              => \A k \in DOMAIN heap : heap'[k] = heap[k]]_vars

\* three personas have run, one after the other through the gate: the heap
\* holds the analyzer's client and the four objects of each of the three agents
C23_Witness ==
    /\ pc = "group"
    /\ Len(tasks) = 3
    /\ \A i \in DOMAIN tasks : tasks[i].pc = "done"
    /\ Len(heap) = 13
    /\ heap[tasks[2].agent.memory].users = {2}
    /\ heap[tasks[3].agent.llm].users = {3}

-----------------------------------------------------------------------------
(* CTA detection *)

\* the page carries a call-to-action keyword
HasCta(c) == \E i \in DOMAIN CtaKeywords : Occurs(CtaKeywords[i], c.text_content)

\* C24: CTA detection is inert: whatever the page text holds, found_ctas stays
\* empty in memory and in the report, no exit_reason names a CTA, and a stop
\* decided by should_exit has one of the two other reasons.
C24_CtaInert ==
    pc \in {"loop", "fetched", "analyze", "update", "except", "finally", "report", "done"}
    => /\ memory.found_ctas = << >>
       /\ \A i \in DOMAIN CtaKeywords : exit_reason # CtaReason(CtaKeywords[i])
       /\ (pc = "analyze" /\ should_stop)
            => exit_reason \in {"Gathered sufficient information",
                                "Website lacks relevant content"}
       /\ Returned => result.report.found_ctas = << >>

\* should_exit has decided on a page whose text says "DEMO" and "trial": no
\* stop, nothing recorded
C24_Witness ==
    /\ pc = "analyze"
    /\ HasCta(content)
    /\ Occurs("demo", content.text_content)
    /\ ~should_stop
    /\ memory.found_ctas = << >>

-----------------------------------------------------------------------------
(* The satisfaction score of _update_memory (lines 87-88) on its own *)

\* lists of likes or dislikes of every length up to MaxItems
ItemLists == SeqsUpTo({ {"pricing"}, {"other"} }, MaxItems)

SatisfactionAnalyses ==
    { [url |-> "u1", summary |-> {"other"}, likes |-> l, dislikes |-> d,
       click_reasons |-> << >>, next_expectations |-> << >>,
       overall_impression |-> {"other"}] : l \in ItemLists, d \in ItemLists }

InitSatisfaction ==
    /\ NavAtRest
    /\ GroupAtRest
    /\ persona = DefaultPersona
    /\ memory = NavigationMemory
    /\ pc = "call"
    /\ args \in { [op |-> "satisfaction", url |-> "u1", analysis |-> a] :
                    a \in SatisfactionAnalyses }
    /\ ret = Idle

\* lines 87-88: the score is computed and stored under the URL
CallSatisfaction ==
    /\ pc = "call"
    /\ args.op = "satisfaction"
    /\ ret' = [satisfaction_scores |->
                 Put(NavigationMemory.satisfaction_scores, args.url,
                     Satisfaction(args.analysis))]
    /\ pc' = "returned"
    /\ UNCHANGED << navVars, args, fgVars >>

SpecSatisfaction == InitSatisfaction /\ [][CallSatisfaction]_vars

SatisfactionReturned == pc = "returned" /\ args.op = "satisfaction"

\* C25: the satisfaction of a page is |likes| / (|likes| + |dislikes|) when one
\* of the lists is not empty and exactly 1/2 when both are empty: 1 with likes
\* only, 0 with dislikes only. The score <<n, d>> is the fraction n/d.
C25_SatisfactionScore ==
    SatisfactionReturned =>
      LET l == Len(args.analysis.likes)
          d == Len(args.analysis.dislikes)
          s == Get(ret.satisfaction_scores, args.url, << 0, 0 >>)
      IN  /\ s[2] > 0
          /\ (l + d > 0) => s[1] * (l + d) = l * s[2]
          /\ (l = 0 /\ d = 0) => 2 * s[1] = s[2]
          /\ (l > 0 /\ d = 0) => s[1] = s[2]
          /\ (l = 0 /\ d > 0) => s[1] = 0

\* a page with dislikes and no likes has been scored 0
C25_Witness ==
    /\ SatisfactionReturned
    /\ args.analysis.likes = << >>
    /\ Len(args.analysis.dislikes) = 2
    /\ Get(ret.satisfaction_scores, args.url, << 1, 1 >>) = << 0, 2 >>

-----------------------------------------------------------------------------
(* The pass of the loop over one page *)

\* the page fetched last
LastFetched == fetches[Len(fetches)]

\* the run has ended and the page it fetched last came with content
LastPageFetched ==
    /\ Finished
    /\ Len(persona.needs) > 0
    /\ fetches # << >>
    /\ site[LastFetched].kind = "content"

\* C26: in each pass the page is analyzed and recorded whatever should_exit
\* said: the page fetched last, on which the run ended, is the last entry of
\* visited_urls with its insights in memory, and the last entry of the
\* pages_analyzed of the report.
C26_PageRecordedBeforeStop ==
    LastPageFetched
    => /\ memory.visited_urls # << >>
       /\ memory.visited_urls[Len(memory.visited_urls)] = LastFetched
       /\ LastFetched \in DOMAIN memory.key_insights
       /\ result.kind = "returned"
       /\ result.report.pages_analyzed # << >>
       /\ result.report.pages_analyzed[Len(result.report.pages_analyzed)].url = LastFetched

\* the number of pages at the end of visited_urls that are all irrelevant
\* (relevance below 0.3, a page without a score counting as 0)
RECURSIVE IrrelevantSuffix(_, _)
IrrelevantSuffix(mem, n) ==
    IF n = 0 THEN 0
    ELSE IF IsIrrelevant(Get(mem.topic_relevance, mem.visited_urls[n], 0))
         THEN 1 + IrrelevantSuffix(mem, n - 1)
         ELSE 0

\* C27: the counter follows the relevance of every page recorded in memory,
\* the page on which the run stops included: once the loop is left,
\* consecutive_irrelevant_pages is the length of the longest suffix of
\* visited_urls whose pages all have relevance below 0.3.
C27_CounterIsIrrelevantSuffix ==
    (pc \in {"finally", "report", "done"} /\ Len(persona.needs) > 0)
    => memory.consecutive_irrelevant_pages
         = IrrelevantSuffix(memory, Len(memory.visited_urls))

-----------------------------------------------------------------------------
(* The fallback of _choose_next_url *)

\* the completion call of the chooser gave a response
ChooserAnswered == Invoke(args.script, DefaultMaxAttempts).kind = "return"

\* the last line of the response is not a link, or names a visited page
CandidateInvalid ==
    \/ args.candidate \notin Range(args.links)
    \/ args.candidate \in Range(memory.visited_urls)

\* the positions of the links that are not visited
OpenLinks == { i \in DOMAIN args.links : args.links[i] \notin Range(memory.visited_urls) }

\* C28: when the candidate is not in links or is already visited, the chooser
\* returns the first element of links, in the order of the list, that is not
\* in visited_urls; the result is fixed by links and visited_urls alone.
C28_FallbackIsFirstUnvisited ==
    (ChooseReturned /\ ChooserAnswered /\ CandidateInvalid /\ OpenLinks # {})
    => \E i \in OpenLinks :
         /\ ret.url = args.links[i]
         /\ \A j \in 1..(i - 1) : j \notin OpenLinks

\* the response named no link; the first link was visited and the chooser
\* returned the second
C28_Witness ==
    /\ ChooseReturned
    /\ ChooserAnswered
    /\ args.candidate = "no url"
    /\ Len(args.links) = 2
    /\ OpenLinks = {2}
    /\ ret.url = args.links[2]

\* the chooser alone: None exactly when the completion call failed, or the
\* candidate is invalid and every link is visited
ChooserNoneExactly ==
    ChooseReturned
    => (ret.url = None <=> (~ChooserAnswered \/ (CandidateInvalid /\ OpenLinks = {})))

\* the run fetched the start page alone although that page came with links and
\* the loop had room for another page; no stop was decided
EndedAfterLinkedPage ==
    /\ Finished
    /\ Len(persona.needs) > 0
    /\ max_pages >= 2
    /\ fetches = << start_url >>
    /\ site[start_url].kind = "content"
    /\ site[start_url].links # << >>
    /\ ~should_stop

EndedAfterBarePage ==
    /\ Finished
    /\ Len(persona.needs) > 0
    /\ max_pages >= 1
    /\ fetches = << start_url >>
    /\ site[start_url].kind = "content"
    /\ site[start_url].links = << >>
    /\ ~should_stop

\* C30: when the fetched page has no links and no stop was decided for it, the
\* run ends with the reason "No further links to explore", in navigate and in
\* the report it returns, and goes to no other page; a stop decided for the
\* page keeps its own reason.
C30_NoLinksEndsRun ==
    /\ EndedAfterBarePage
        => /\ result.kind = "returned"
           /\ exit_reason = "No further links to explore"
           /\ result.report.exit_reason = "No further links to explore"
           /\ current_url = start_url
    /\ (Finished /\ should_stop)
        => exit_reason \in {"Gathered sufficient information",
                            "Website lacks relevant content"}

-----------------------------------------------------------------------------
(* The two invokes of analyze_page *)

\* C31: when the first invoke of analyze_page (max_attempts = 2) fails, a
\* second invoke is issued before the analysis is given up: the service is
\* called again after the calls of the first invoke.
C31_SecondInvokeAfterFirstFails ==
    (AnalyzeReturned /\ ContentWellFormed /\ ~FirstInvokeAnswered)
    => ret.calls > Invoke(args.script1, AnalyzeFirstAttempts).calls

-----------------------------------------------------------------------------
(* RateLimitedLLM with its clock: src/src/llm/claude_client.py. One client,
   up to MaxInvokes calls of invoke one after the other, each followed attempt
   by attempt. The time is counted in seconds from the moment last_call_time
   was set last: `elapsed` is time.time() - self.last_call_time (line 24). *)

\* the ceiling of the backoff, line 27
BackoffCap == 300

\* time.time() - 0 when the client is made (last_call_time = 0, line 17): far
\* above every delay
StartTime == 1000

\* the pairs (min_delay, max_delay) a client is made with: the defaults of
\* line 9, and longer delays
DelayChoices == { << 10, 20 >>, << 100, 200 >>, << 400, 500 >> }

\* max_attempts of the calls of invoke in the program: 2 (persona_agent.py,
\* line 216) and the default 3
AttemptChoices == { AnalyzeFirstAttempts, DefaultMaxAttempts }

\* the seconds that pass between two calls of invoke
IdleGaps == { 0, 400 }

\* the seconds one call of the service takes
CallTimes == { 1, 350 }

\* the seconds by which a sleep and the reading of the clock run late
Overshoots == { 0, 1 }

\* line 27: min(300, self.min_delay * (2 ** self.retry_count))
RetryDelay(min_delay, retry_count) == Min(BackoffCap, min_delay * 2 ^ retry_count)

\* lines 26-29: the delay; random.uniform(min_delay, max_delay) gives any value
\* between the two, here one of the ends
Delays(c) ==
    IF c.retry_count > 0 THEN { RetryDelay(c.min_delay, c.retry_count) }
    ELSE { c.min_delay, c.max_delay }

\* a wait that does not sleep
SleepUntil_NoWait(now, last, delay) == now

\* lines 23-34: the time when the sleep, if any, is over
SleepUntil(now, last, delay) ==
    IF now - last < delay THEN now + (delay - (now - last)) ELSE now

\* an invoke that keeps the count of the one before
InvokeStartCount_Carried(retry_count) == retry_count

\* line 40: self.retry_count = 0
InvokeStartCount(retry_count) == 0

\* __init__ (lines 9-19), and the history kept of the client: failures is the
\* number of failed attempts of the current invoke, stamps the number of times
\* last_call_time was set, spacing the seconds between its last two values,
\* targets the delays of the retries of the current invoke, outcome how the
\* invoke before ended
NewClient(d) ==
    [pc |-> "idle", min_delay |-> d[1], max_delay |-> d[2], elapsed |-> StartTime,
     retry_count |-> 0, max_attempts |-> 0, invokes |-> 0,
     failures |-> 0, calls |-> 0, stamps |-> 0, spacing |-> 0, delay |-> 0,
     targets |-> << >>, outcome |-> "none"]

InitClient ==
    /\ NavAtRest
    /\ persona = DefaultPersona
    /\ memory = NavigationMemory
    /\ pc = "client"
    /\ args = Idle
    /\ ret = Idle
    /\ personas = << >>
    /\ tasks = << >>
    /\ semaphore = SemaphoreValue
    /\ group = [pc |-> "idle"]
    /\ heap = << >>
    /\ client \in { NewClient(d) : d \in DelayChoices }

clientFrame == << navVars, pc, args, ret, personas, tasks, semaphore, group, heap >>

\* lines 38-41: invoke is called
StartInvoke ==
    /\ client.pc = "idle"
    /\ client.invokes < MaxInvokes
    /\ \E n \in AttemptChoices, gap \in IdleGaps :
         client' = [client EXCEPT !.pc = "loop",
                                  !.retry_count = InvokeStartCount(@),
                                  !.max_attempts = n,
                                  !.elapsed = @ + gap,
                                  !.invokes = @ + 1,
                                  !.failures = 0,
                                  !.targets = << >>]
    /\ UNCHANGED clientFrame

\* lines 43-45 and 21-36: the loop goes on; _wait_for_rate_limit sleeps up to
\* the delay and stamps last_call_time
WaitForRateLimit ==
    /\ client.pc = "loop"
    /\ InvokeContinues(client.retry_count, client.max_attempts)
    /\ \E d \in Delays(client), late \in Overshoots :
         LET t == SleepUntil(client.elapsed, 0, d) + late
         IN  client' = [client EXCEPT !.pc = "call",
                                      !.elapsed = 0,
                                      !.spacing = t,
                                      !.stamps = @ + 1,
                                      !.delay = d,
                                      !.targets = IF client.retry_count > 0
                                                  THEN Append(@, d) ELSE @]
    /\ UNCHANGED clientFrame

\* line 66: the loop is over, the aggregated error is raised
GiveUp ==
    /\ client.pc = "loop"
    /\ ~InvokeContinues(client.retry_count, client.max_attempts)
    /\ client' = [client EXCEPT !.pc = "idle", !.outcome = "ValueError"]
    /\ UNCHANGED clientFrame

\* lines 48-64: the service is called; it answers or raises
CallService ==
    /\ client.pc = "call"
    /\ \E o \in ServiceOutcomes, dur \in CallTimes :
         LET rc == client.retry_count + 1
         IN  client' =
               IF o = "ok"
               THEN [client EXCEPT !.pc = "idle", !.elapsed = @ + dur, !.calls = @ + 1,
                                   !.retry_count = 0, !.outcome = "return"]
               ELSE IF IsRateLimit(o)
               THEN [client EXCEPT !.pc = "loop", !.elapsed = @ + dur, !.calls = @ + 1,
                                   !.retry_count = rc, !.failures = @ + 1]
               ELSE IF InvokeReraises(rc, client.max_attempts)
               THEN [client EXCEPT !.pc = "idle", !.elapsed = @ + dur, !.calls = @ + 1,
                                   !.retry_count = rc, !.failures = @ + 1,
                                   !.outcome = "reraise"]
               ELSE [client EXCEPT !.pc = "loop", !.elapsed = @ + dur + 2 ^ rc,
                                   !.calls = @ + 1, !.retry_count = rc,
                                   !.failures = @ + 1]
    /\ UNCHANGED clientFrame

NextClient == StartInvoke \/ WaitForRateLimit \/ GiveUp \/ CallService

SpecClient == InitClient /\ [][NextClient]_vars

-----------------------------------------------------------------------------
(* Properties of the client's waits *)

\* the client has waited and is about to call the service
Attempting == pc = "client" /\ client.pc = "call"

\* C32: within one invoke the delay before retry n (after n failed attempts,
\* rate-limit rejections and other errors alike) is min(300, min_delay * 2^n),
\* which does not decrease with n and is never above 300; at the first attempt
\* of every invoke the retry counter is 0, however the invoke before ended.
C32_BackoffPerInvoke ==
    Attempting =>
      /\ client.retry_count = client.failures
      /\ client.failures >= 1
           => /\ client.delay = Min(300, client.min_delay * 2 ^ client.failures)
              /\ client.delay <= 300
      /\ Len(client.targets) = client.failures
      /\ \A i \in 1..(Len(client.targets) - 1) : client.targets[i] <= client.targets[i + 1]

\* the second retry of a second invoke, after an invoke that failed on every
\* attempt: the delays were 200 and then 300 seconds
C32_Witness ==
    /\ Attempting
    /\ client.invokes = 2
    /\ client.outcome = "ValueError"
    /\ client.min_delay = 100
    /\ client.failures = 2
    /\ client.targets = << 200, 300 >>

\* C33: last_call_time is stamped once for every attempt, before the attempt
\* succeeds or fails, and two consecutive stamps of one client are at least
\* min_delay apart when min_delay <= 300.
C33_StampsSpaced ==
    pc = "client" =>
      /\ client.stamps = client.calls + (IF client.pc = "call" THEN 1 ELSE 0)
      /\ (client.stamps >= 2 /\ client.min_delay <= 300)
           => client.spacing >= client.min_delay

\* the first attempt of a second invoke, made right after an invoke that
\* raised: it was held back until min_delay after the stamp before
C33_Witness ==
    /\ Attempting
    /\ client.invokes = 2
    /\ client.outcome = "reraise"
    /\ client.failures = 0
    /\ client.stamps >= 2
    /\ client.spacing = client.min_delay

-----------------------------------------------------------------------------
(* should_exit and what it reads: one call on every memory, content and
   criteria below *)

\* criteria that differ in the two fields should_exit reads and in the two
\* declared beside them
FrameCriteria ==
    { [c EXCEPT !.satisfaction_threshold = o[1], !.max_irrelevant_pages = o[2]] :
        c \in CriteriaChoices, o \in { << << 7, 10 >>, 3 >>, << << 1, 10 >>, 2 >> } }

\* memories after no page, one page or two pages
FrameInsights ==
    { EmptyDict,
      Put(EmptyDict, "u1", << {"other"} >>),
      Put(EmptyDict, "u1", << {"pricing", "info"} >>),
      Put(Put(EmptyDict, "u1", << {"pricing", "info"} >>), "u2", << {"docs", "guide"} >>),
      Put(Put(EmptyDict, "u1", << {"docs", "guide"} >>), "u2", << {"pricing", "info"} >>) }

FrameMemories ==
    { [NavigationMemory EXCEPT
          !.visited_urls = IF DOMAIN k = {} THEN << >>
                           ELSE IF DOMAIN k = {"u1"} THEN << "u1" >>
                           ELSE << "u1", "u2" >>,
          !.key_insights = k,
          !.consecutive_irrelevant_pages = c] :
        k \in FrameInsights, c \in 0..MaxCounter }

InitExitFrame ==
    /\ NavAtRest
    /\ GroupAtRest
    /\ persona \in { [DefaultPersona EXCEPT !.needs = n] : n \in NeedsChoices }
    /\ memory \in FrameMemories
    /\ pc = "call"
    /\ args \in { [op |-> "should_exit", criteria |-> c, content |-> x] :
                    c \in FrameCriteria, x \in ExitContents }
    /\ ret = Idle

SpecExitFrame == InitExitFrame /\ [][CallShouldExit]_vars

\* what should_exit gives for memory mem, criteria c and content x
ExitResultOf(mem, c, x) ==
    LET r == ShouldExitOn(mem, persona.needs, c, x.text_content)
    IN  [ok |-> r.ok, stop |-> r.stop, reason |-> r.reason, exc |-> r.exc]

\* the two values of the memory that the decision rests on
SameCoverageAndCounter(m1, m2) ==
    /\ InformationCoverage(m1, persona.needs) = InformationCoverage(m2, persona.needs)
    /\ m1.consecutive_irrelevant_pages = m2.consecutive_irrelevant_pages

\* the two criteria that the decision rests on
SameReadCriteria(c1, c2) ==
    /\ c1.min_information_coverage = c2.min_information_coverage
    /\ c1.consecutive_irrelevant_threshold = c2.consecutive_irrelevant_threshold

\* C34: should_exit only reads memory: every field of NavigationMemory is left
\* as it was; and its result is fixed by the coverage, min_information_coverage,
\* consecutive_irrelevant_pages and consecutive_irrelevant_threshold: any
\* other content, any other satisfaction_threshold or max_irrelevant_pages and
\* any other memory with the same coverage and counter give the same result.
C34_ShouldExitReadsOnly ==
    /\ [][(pc = "call" /\ args.op = "should_exit") => memory' = memory]_vars
    /\ [](pc = "returned" /\ args.op = "should_exit" =>
            /\ \A c \in FrameCriteria, x \in ExitContents :
                 SameReadCriteria(c, args.criteria) => ExitResultOf(memory, c, x) = ret
            /\ \A m \in FrameMemories :
                 SameCoverageAndCounter(m, memory)
                 => ExitResultOf(m, args.criteria, args.content) = ret)

\* should_exit has said stop for the counter on a page with CTA words, under
\* criteria whose max_irrelevant_pages is below the threshold read
C34_Witness ==
    /\ pc = "returned"
    /\ args.op = "should_exit"
    /\ ret.ok
    /\ ret.stop
    /\ ret.reason = "Website lacks relevant content"
    /\ HasCta(args.content)
    /\ args.criteria.max_irrelevant_pages < args.criteria.consecutive_irrelevant_threshold
    /\ memory.consecutive_irrelevant_pages = args.criteria.consecutive_irrelevant_threshold
    /\ memory.key_insights # EmptyDict

-----------------------------------------------------------------------------
(* The memory over a run *)

\* the mappings of the memory that are keyed by URL
PerUrlMappings == {"page_summaries", "key_insights", "topic_relevance", "satisfaction_scores"}

\* C35: visited_urls holds no URL twice, and once a pass of the loop is over
\* each mapping keyed by URL (page_summaries, key_insights, topic_relevance,
\* satisfaction_scores) has one entry for every visited page and for no other.
C35_OneEntryPerVisitedPage ==
    /\ \A i, j \in DOMAIN memory.visited_urls :
         memory.visited_urls[i] = memory.visited_urls[j] => i = j
    /\ (pc \in {"loop", "except", "finally", "report", "done"})
         => \A f \in PerUrlMappings : DOMAIN memory[f] = Range(memory.visited_urls)

\* C36: the stop decision of a pass rests on the memory as it was before the
\* page of that pass was analyzed, so a page that completes the coverage does
\* not stop the run itself: here page 1 covers the only need and leads on, and
\* max_pages >= 2; page 2 is fetched, analyzed and recorded, and the run stops
\* there with "Gathered sufficient information".
C36_StopLagsOnePage ==
    /\ pc = "analyze" => current_url \notin Range(memory.visited_urls)
    /\ (Finished /\ SecondPageDue
          /\ persona.needs = << "pricing" >>
          /\ oracle[start_url] = PricingResponse
          /\ (\A l \in SecondPages : site[l].kind = "content"))
       => /\ Len(fetches) = 2
          /\ result.kind = "returned"
          /\ result.report.exit_reason = "Gathered sufficient information"
          /\ Len(result.report.pages_analyzed) = 2
          /\ result.report.pages_analyzed[2].url = fetches[2]

-----------------------------------------------------------------------------
(* Termination of navigate *)

\* sites for the runs followed to their end: every page with links, a start
\* page without links, a start page behind the Cloudflare check
LiveSites ==
    { [u \in Urls |-> [kind |-> "content", exc |-> "", links |-> << "u2", "u3" >>,
                       text_content |-> PageText(<< "u2", "u3" >>)]],
      [u \in Urls |-> [kind |-> "content", exc |-> "", links |-> << >>,
                       text_content |-> PageText(<< >>)]],
      [u \in Urls |-> [kind |-> "raise", exc |-> CloudflareMsg, links |-> << >>,
                       text_content |-> {}]] }

\* the initial states of navigate on those sites
InitLive == Init /\ site \in LiveSites

\* navigate is sequential code: when every fetch and every call of the
\* completion service returns or raises, the step that is due is taken
SpecFair == InitLive /\ [][Next]_vars /\ WF_vars(Next)

\* the calls of the service a run of n pages can make at most: for each page
\* the two invokes of analyze_page (2 and 3 attempts) and the invoke of the
\* chooser (3), and the invoke of the final conclusion (3)
CallBound(n) == n * (2 + 3 + 3) + 3

-----------------------------------------------------------------------------
(* The exit reasons *)

\* the reasons navigate and should_exit can give, the error reasons apart
PlainReasons ==
    { "Gathered sufficient information", "Website lacks relevant content",
      "No further links to explore", "No relevant links to explore", "" }

\* the reason has the form 'Error: <message>' for the exception caught
IsErrorReason(r) == pending # "" /\ r = "Error: " \o pending

\* C38: once the loop is left, exit_reason, and with it the exit_reason of
\* every report, is one of the four plain reasons, 'Error: <message>' or the
\* empty string, and it is the empty string only when the loop ended by
\* exhausting max_pages.
C38_ExitReasonsClosed ==
    /\ pc \in {"finally", "report", "done"}
         => /\ exit_reason \in PlainReasons \/ IsErrorReason(exit_reason)
            /\ exit_reason = "" => (page_num >= max_pages /\ pending = "")
    /\ Returned
         => /\ result.report.exit_reason = exit_reason
            /\ result.report.exit_reason = "" => Len(fetches) = max_pages

\* a report whose reason is the error of the first fetch
C38_Witness ==
    /\ Returned
    /\ max_pages >= 1
    /\ fetches = << start_url >>
    /\ result.report.exit_reason = "Error: " \o FetchErrorMsg

-----------------------------------------------------------------------------
(* The focus group under a fair event loop *)

\* asyncio runs a task that is ready: the loop does not idle while a step of
\* analyze_website or of one of its tasks can be taken
SpecGroupFair == InitGroup /\ [][NextGroup]_vars /\ WF_vars(NextGroup)

\* every persona has a task, every task has ended, every place of the gate is free
AllTasksFinished ==
    /\ Len(tasks) = Len(personas)
    /\ \A i \in DOMAIN tasks : tasks[i].pc = "done"
    /\ semaphore = SemaphoreValue

\* the entry e is the one of persona i: its report, or its placeholder
EntryOf(i, e) ==
    IF "error" \in DOMAIN e
    THEN e.persona = personas[i].name
    ELSE e = personas[i].run.report

\* the tasks part of C39 alone
GroupTasksFinish == <>AllTasksFinished

\* C39: in a focus group every persona's task eventually enters the gate and
\* finishes, every place of the gate given back, and the individual_reports
\* of the report analyze_website returns has exactly one entry per persona,
\* in the order of the personas list.
C39_EveryTaskFinishesInOrder ==
    /\ <>AllTasksFinished
    /\ [](GroupDone =>
            /\ group.result.kind = "returned"
            /\ "individual_reports" \in DOMAIN group.result.report
            /\ Len(group.result.report.individual_reports) = Len(personas)
            /\ \A i \in DOMAIN personas :
                 EntryOf(i, group.result.report.individual_reports[i]))

\* what gather hands to _generate_combined_report: one entry per persona, in
\* the order of the personas list
GatheredInOrder ==
    (pc = "group" /\ group.pc = "combine")
    => /\ Len(group.reports) = Len(personas)
       /\ \A i \in DOMAIN personas : EntryOf(i, group.reports[i])

====
